---- MODULE Spec2Model ----
(***************************************************************************)
(* regtail: the tail engine (src/src/tail.rs) and the multi-file watch     *)
(* loop (src/src/watcher.rs, src/src/filter.rs).                           *)
(*                                                                         *)
(* The directory maps each existing path to the bytes of its file.  An     *)
(* open handle keeps its file through rename and unlink: it names the path *)
(* its file has now, or holds the bytes of its file once the file has no   *)
(* path left, and carries its own position.  The LRU pool is a sequence of *)
(* handles, least recently used first.                                     *)
(***************************************************************************)
EXTENDS Integers, Sequences, FiniteSets, TLC

VARIABLES
    fs,                 \* directory: path -> content (DOMAIN = existing paths)
    pool,               \* FileRepository: Seq of [key, file, gone, pos], LRU first
    file_map,           \* path -> TailState record
    renaming_map,       \* cookie -> <<>> (None) or <<TailState>> (Some)
    selected_file_path, \* path or NoPath
    queue,              \* events in flight from the watcher channel
    pc,                 \* "start" | "loop" | "exit"; "tail" | "tailed" (engine runs)
    exit_code,          \* process exit code once pc = "exit"
    lines,              \* opt.lines
    show_binary,        \* opt.show_binary
    emitted,            \* stdout items written by the most recent program step
    last,               \* the step the program took most recently
    tty,                \* summary of the whole stdout stream so far
    removed,            \* paths whose state a REMOVE dropped, untouched since
    nops,               \* number of file-system operations performed so far
    open_files,         \* number of File values alive: opened and not yet dropped
    denied              \* paths whose file File::open fails on (no permission)

vars == <<fs, pool, file_map, renaming_map, selected_file_path, queue,
          pc, exit_code, lines, show_binary, emitted, last, tty, removed, nops,
          open_files, denied>>

---------------------------------------------------------------------------
(* Bounds and program constants *)

\* tail.rs:29 is 8 * 1024; scaled down so that small files span several windows.
BUFFER_SIZE == 2
BUFFER_LEN == BUFFER_SIZE
\* watcher.rs:36 is 512; scaled down so that few files fill the pool.
MAX_FILE_HANDLE == 2
\* b'\n'
NL == 10
\* main.rs:32-35
EX_ERR == 1
EX_NOINPUT == 66
EX_SOFTWARE == 70
EX_IOERR == 74
\* the byte content_inspector classifies as binary
NUL == 0

MaxTailLen == 5      \* longest file of the tail-engine runs
MaxLines == 2        \* largest opt.lines of the tail-engine runs
MaxLen == 2          \* longest file of the watcher runs
MaxOps == 2          \* file-system operations per run
MaxReuseOps == 6     \* file-system operations per run that reuses a path
MaxCalls == 4        \* reader calls per run of the reader runs

Paths == {"a", "b", "c", "x"}
PathOrder == <<"a", "b", "c", "x">>
NoPath == ""
TextBytes == {97, NL}

---------------------------------------------------------------------------
(* Helpers *)

Min(a, b) == IF a < b THEN a ELSE b
Max(a, b) == IF a > b THEN a ELSE b
Last(s) == s[Len(s)]
RemoveAt(s, i) == SubSeq(s, 1, i - 1) \o SubSeq(s, i + 1, Len(s))

RECURSIVE SeqsUpTo(_, _)
SeqsUpTo(S, n) ==
    IF n = 0 THEN {<<>>}
    ELSE LET shorter == SeqsUpTo(S, n - 1)
         IN shorter \cup {Append(s, b) : s \in shorter, b \in S}

---------------------------------------------------------------------------
(* LruCache<PathBuf, Rc<RefCell<File>>> *)

HasKey(p, k) == \E i \in 1..Len(p) : p[i].key = k
IndexOf(p, k) == CHOOSE i \in 1..Len(p) : p[i].key = k

\* LruCache::get: a hit becomes the most recently used entry
LruGet(p, k) == LET i == IndexOf(p, k) IN Append(RemoveAt(p, i), p[i])

\* a put that never evicts
LruPut_NoEvict(p, e) ==
    IF HasKey(p, e.key) THEN Append(RemoveAt(p, IndexOf(p, e.key)), e)
    ELSE Append(p, e)

\* LruCache::put: replaces the value of a present key; evicts the least
\* recently used entry when full
LruPut(p, e) ==
    IF HasKey(p, e.key) THEN Append(RemoveAt(p, IndexOf(p, e.key)), e)
    ELSE IF Len(p) >= MAX_FILE_HANDLE THEN Append(Tail(p), e)
    ELSE Append(p, e)

\* LruCache::pop
LruPop(p, k) == IF HasKey(p, k) THEN RemoveAt(p, IndexOf(p, k)) ELSE p

\* HashMap::insert and HashMap::remove
Put(f, k, v) == [x \in DOMAIN f \cup {k} |-> IF x = k THEN v ELSE f[x]]
Remove(f, k) == [x \in DOMAIN f \ {k} |-> f[x]]

\* Weak::upgrade fails once the pool has dropped the handle
Upgradable(fm, p) ==
    [k \in DOMAIN fm |-> [fm[k] EXCEPT !.cache = @ /\ HasKey(p, fm[k].path)]]
UpgradableOpt(rm, p) ==
    [c \in DOMAIN rm |->
        IF rm[c] = <<>> THEN <<>>
        ELSE <<[rm[c][1] EXCEPT !.cache = @ /\ HasKey(p, rm[c][1].path)]>>]

---------------------------------------------------------------------------
(* TransparentReader and TailState.  A machine m threads one tail state    *)
(* through the calls of one handler:                                       *)
(*   st   the TailState: [path, seek, cache, eol]                          *)
(*        path  = reader.path, seek = reader.reader_seek_pos,              *)
(*        cache = reader.reader_cache upgrades, eol = printed_eol          *)
(*   pool the LRU pool                                                     *)
(*   out  bytes the writer has received                                    *)
(*   buf  bytes returned by the last read                                  *)
(*   ret  value returned by the last call                                  *)
(*   err  an io::Error is propagating (every later call is skipped)        *)
(*   fds  File values opened less File values dropped by the calls so far  *)
(*   flushes  calls of writer.flush() so far                               *)
(*   flushed  how many bytes of out had been received at the last flush    *)
(*   reads    calls of File::read so far                                   *)
(*   seeks    the offsets passed to seek so far                            *)
(*   cap      how many bytes the writer accepts in one call of write       *)
(***************************************************************************)

\* TransparentReader::new / CachedTailState::from_file_reader
NewState(path) == [path |-> path, seek |-> 0, cache |-> FALSE, eol |-> FALSE]

Machine(st, p) ==
    [st |-> st, pool |-> p, out |-> <<>>, buf |-> <<>>, ret |-> 0, err |-> FALSE,
     fds |-> 0, flushes |-> 0, flushed |-> 0, reads |-> 0, seeks |-> <<>>,
     cap |-> BUFFER_SIZE]

\* FileCreator::create_reader: File::open(path)
CanOpen(path) == path \in DOMAIN fs /\ path \notin denied

\* File::open: a handle on the file now at path, positioned at 0
OpenFile(path) == [key |-> path, file |-> path, gone |-> <<>>, pos |-> 0]

\* the bytes of the file behind a handle
HandleData(h) == IF h.file # NoPath THEN fs[h.file] ELSE h.gone

\* the entries LruCache::put drops to make room for the key k: the pool held
\* the only Rc of each (reader_cache is a Weak, the Rc a call gets from
\* reader() is dropped when the call returns), so their File is dropped too
Evicted(p, k) == IF ~HasKey(p, k) /\ Len(p) >= MAX_FILE_HANDLE THEN 1 ELSE 0

\* reader() with a put that keeps the File of the entry it evicts alive
Reader_KeepsEvicted(m) ==
    IF m.st.cache /\ HasKey(m.pool, m.st.path) THEN m
    ELSE IF HasKey(m.pool, m.st.path)
         THEN [m EXCEPT !.pool = LruGet(m.pool, m.st.path)]
    ELSE IF ~CanOpen(m.st.path) THEN [m EXCEPT !.err = TRUE]
    ELSE [m EXCEPT
            !.pool = LruPut(m.pool, OpenFile(m.st.path)),
            !.st.cache = TRUE,
            !.fds = @ + 1]

\* TransparentReader::reader
Reader(m) ==
    IF m.st.cache /\ HasKey(m.pool, m.st.path) THEN m
    ELSE IF HasKey(m.pool, m.st.path)
         THEN [m EXCEPT !.pool = LruGet(m.pool, m.st.path)]
    ELSE IF ~CanOpen(m.st.path) THEN [m EXCEPT !.err = TRUE]
    ELSE [m EXCEPT
            !.pool = LruPut(m.pool, OpenFile(m.st.path)),
            !.st.cache = TRUE,
            !.fds = @ + 1 - Evicted(m.pool, m.st.path)]

\* impl Read for File, on the handle at pool index i
FileRead(m, i, n) ==
    LET h == m.pool[i]
        d == HandleData(h)
        k == Max(0, Min(n, Len(d) - h.pos))
    IN [m EXCEPT !.pool[i].pos = h.pos + k,
                 !.buf = SubSeq(d, h.pos + 1, h.pos + k),
                 !.ret = k]

\* impl Read for TransparentReader
ReadStep(m, n) ==
    LET Advance(m2) == [m2 EXCEPT !.st.seek = @ + m2.ret, !.reads = @ + 1]
        Opened(m1) ==
            IF m1.err THEN m1
            ELSE Advance(FileRead(m1, IndexOf(m1.pool, m1.st.path), n))
    IN Opened(Reader(m))

Read(m, n) == IF m.err THEN m ELSE ReadStep(m, n)

\* impl Seek for File, on the handle at pool index i
FileSeek(m, i, whence, off) ==
    LET h == m.pool[i]
        base == CASE whence = "Start" -> 0
                  [] whence = "End" -> Len(HandleData(h))
                  [] whence = "Current" -> h.pos
        np == Max(0, base + off)
    IN [m EXCEPT !.pool[i].pos = np, !.ret = np]

\* impl Seek for TransparentReader
SeekStep(m, whence, off) ==
    LET Store(m2) == [m2 EXCEPT !.st.seek = m2.ret, !.seeks = Append(@, off)]
        OnHandle(m1, i) ==
            IF whence = "Current"
            THEN FileSeek(FileSeek(m1, i, "Start", m1.st.seek), i, whence, off)
            ELSE FileSeek(m1, i, whence, off)
        Opened(m1) ==
            IF m1.err THEN m1
            ELSE Store(OnHandle(m1, IndexOf(m1.pool, m1.st.path)))
    IN Opened(Reader(m))

Seek(m, whence, off) == IF m.err THEN m ELSE SeekStep(m, whence, off)

\* impl Length for TransparentReader
LengthOf(m) ==
    LET Opened(m1) ==
            IF m1.err THEN m1
            ELSE [m1 EXCEPT
                    !.ret = Len(HandleData(m1.pool[IndexOf(m1.pool, m1.st.path)]))]
    IN IF m.err THEN m ELSE Opened(Reader(m))

\* the path that now names the file the reader's handle is open on (NoPath
\* when that file has no name left): where the bytes it reads come from
SourceOf(m) ==
    IF HasKey(m.pool, m.st.path) THEN m.pool[IndexOf(m.pool, m.st.path)].file
    ELSE NoPath

\* TailState::write
\* TailState::write: writer.write(buf) takes the first bytes of buf, as many as
\* the writer accepts, and the count it returns is dropped
Write(m, bytes) ==
    IF m.err THEN m
    ELSE [m EXCEPT !.out = @ \o SubSeq(bytes, 1, Min(Len(bytes), m.cap))]

\* TailState::flush
Flush(m) ==
    IF m.err THEN m ELSE [m EXCEPT !.flushes = @ + 1, !.flushed = Len(m.out)]

Return(m, v) == [m EXCEPT !.ret = v]

\* the for loop reporting the byte after the newline instead of the newline
RECURSIVE ScanWindow_PastNewline(_, _, _, _)
ScanWindow_PastNewline(target, i, eol_count, tail_count) ==
    IF i = 0 THEN <<FALSE, eol_count>>
    ELSE IF target[i] = NL
         THEN IF eol_count + 1 >= tail_count THEN <<TRUE, i>>
              ELSE ScanWindow_PastNewline(target, i - 1, eol_count + 1, tail_count)
    ELSE ScanWindow_PastNewline(target, i - 1, eol_count, tail_count)

\* the for loop of tail_start_position over one window, from index i down:
\* <<TRUE, index>> at the newline that completes the count, else <<FALSE, count>>
RECURSIVE ScanWindow(_, _, _, _)
ScanWindow(target, i, eol_count, tail_count) ==
    IF i = 0 THEN <<FALSE, eol_count>>
    ELSE IF target[i] = NL
         THEN IF eol_count + 1 >= tail_count THEN <<TRUE, i - 1>>
              ELSE ScanWindow(target, i - 1, eol_count + 1, tail_count)
    ELSE ScanWindow(target, i - 1, eol_count, tail_count)

\* the loop of tail_start_position reading the window one byte before the
\* last one
RECURSIVE ScanLoop_StepsByOne(_, _, _, _, _)
ScanLoop_StepsByOne(m, target, start_index, eol_count, tail_count) ==
    LET Again(m1, count) ==
            ScanLoop_StepsByOne(m1, m1.buf, start_index - 1, count, tail_count)
        Scanned(r) ==
            IF r[1] THEN Return(m, start_index + r[2] + 1)
            ELSE IF start_index = 0 THEN Return(m, 0)
            ELSE Again(Read(Seek(m, "Start", start_index - 1), BUFFER_SIZE), r[2])
    IN IF m.err THEN m
       ELSE Scanned(ScanWindow(target, Len(target), eol_count, tail_count))

\* the loop of tail_start_position
RECURSIVE ScanLoop(_, _, _, _, _)
ScanLoop(m, target, start_index, eol_count, tail_count) ==
    LET Again(m1, count) ==
            ScanLoop(m1, m1.buf, start_index - BUFFER_LEN, count, tail_count)
        Scanned(r) ==
            IF r[1] THEN Return(m, start_index + r[2] + 1)
            ELSE IF start_index = 0 THEN Return(m, 0)
            ELSE Again(Read(Seek(m, "Start", start_index - BUFFER_LEN), BUFFER_SIZE),
                       r[2])
    IN IF m.err THEN m
       ELSE Scanned(ScanWindow(target, Len(target), eol_count, tail_count))

\* "Skip last line ending"
SkipLastLineEnding(target) ==
    IF Len(target) > 0 /\ Last(target) = NL
    THEN SubSeq(target, 1, Len(target) - 1)
    ELSE target

\* a first window that always starts BUFFER_SIZE bytes before the last byte
FirstWindowStart_Unaligned(end_index) == Max(0, end_index - BUFFER_LEN)

\* "Seek position should be a multiple of BUFFER_SIZE"
FirstWindowStart(end_index) ==
    LET size == IF end_index % BUFFER_LEN = 0 THEN BUFFER_LEN
                ELSE end_index % BUFFER_LEN
    IN Max(0, end_index - size)

\* tail_start_position without the early return for tail_count = 0
TailStartPosition_NoZeroCase(m, tail_count) ==
    LET Windowed(m2, start_index) ==
            ScanLoop(m2, SkipLastLineEnding(m2.buf), start_index, 0, tail_count)
        From(m1, start_index) ==
            Windowed(Read(Seek(m1, "Start", start_index), BUFFER_SIZE), start_index)
        Measured(m1, len) ==
            IF m1.err THEN m1
            ELSE IF len = 0 THEN Return(m1, 0)
            ELSE IF len - 1 = 0 THEN Return(m1, 0)
            ELSE From(m1, FirstWindowStart(len - 1))
        Length(m1) == Measured(m1, m1.ret)
    IN Length(LengthOf(m))

\* TailState::tail_start_position
TailStartPosition(m, tail_count) ==
    LET Windowed(m2, start_index) ==
            ScanLoop(m2, SkipLastLineEnding(m2.buf), start_index, 0, tail_count)
        From(m1, start_index) ==
            Windowed(Read(Seek(m1, "Start", start_index), BUFFER_SIZE), start_index)
        Measured(m1, len) ==
            IF m1.err THEN m1
            ELSE IF len = 0 THEN Return(m1, 0)
            ELSE IF tail_count = 0 THEN Seek(m1, "End", 0)
            ELSE IF len - 1 = 0 THEN Return(m1, 0)
            ELSE From(m1, FirstWindowStart(len - 1))
        Length(m1) == Measured(m1, m1.ret)
    IN Length(LengthOf(m))

\* handle_shrink reporting the truncation without seeking to the start
HandleShrink_NoRewind(m, offset) ==
    LET Measured(m1) ==
            IF m1.err THEN m1
            ELSE IF m1.ret < offset THEN Return(m1, 1)
            ELSE Return(m1, 0)
    IN Measured(LengthOf(m))

\* TailState::handle_shrink; ret is 1 for true, 0 for false
HandleShrink(m, offset) ==
    LET Measured(m1) ==
            IF m1.err THEN m1
            ELSE IF m1.ret < offset THEN Return(Seek(m1, "Start", 0), 1)
            ELSE Return(m1, 0)
    IN Measured(LengthOf(m))

\* TailState::seek_with_shrink_handling
SeekWithShrinkHandling(m, offset) ==
    LET Checked(m1) ==
            IF m1.err THEN m1
            ELSE IF m1.ret = 1 THEN Return(m1, 0)
            ELSE Seek(m1, "Start", offset)
    IN Checked(HandleShrink(m, offset))

\* the loop of dump_to_tail returning at end of file without a flush
RECURSIVE DumpLoop_NoFlush(_, _, _, _)
DumpLoop_NoFlush(m, target, offset, last_byte) ==
    LET Filled(m1) ==
            IF m1.err THEN m1
            ELSE IF Len(m1.buf) = 0
                 THEN Return([m1 EXCEPT !.st.eol = (last_byte = NL)], offset)
            ELSE DumpLoop_NoFlush(m1, m1.buf, offset + Len(m1.buf), Last(m1.buf))
    IN Filled(Read(Write(m, target), BUFFER_SIZE))

\* the loop of dump_to_tail: write the target, read the next chunk
RECURSIVE DumpLoop(_, _, _, _)
DumpLoop(m, target, offset, last_byte) ==
    LET Filled(m1) ==
            IF m1.err THEN m1
            ELSE IF Len(m1.buf) = 0
                 THEN Return([Flush(m1) EXCEPT !.st.eol = (last_byte = NL)], offset)
            ELSE DumpLoop(m1, m1.buf, offset + Len(m1.buf), Last(m1.buf))
    IN Filled(Read(Write(m, target), BUFFER_SIZE))

\* dump_to_tail recording, when its first read is empty, that no newline was
\* printed last
DumpToTail_ForgetsEol(m) ==
    LET Filled(m1, offset) ==
            IF m1.err THEN m1
            ELSE IF Len(m1.buf) = 0
                 THEN Return([m1 EXCEPT !.st.eol = FALSE], offset)
            ELSE DumpLoop(m1, m1.buf, offset + Len(m1.buf), Last(m1.buf))
        From(offset) == Filled(Read(m, BUFFER_LEN - (offset % BUFFER_LEN)), offset)
    IN IF m.err THEN m ELSE From(m.st.seek)

\* TailState::dump_to_tail
DumpToTail(m) ==
    LET Filled(m1, offset) ==
            IF m1.err THEN m1
            ELSE IF Len(m1.buf) = 0 THEN Return(m1, offset)
            ELSE DumpLoop(m1, m1.buf, offset + Len(m1.buf), Last(m1.buf))
        From(offset) == Filled(Read(m, BUFFER_LEN - (offset % BUFFER_LEN)), offset)
    IN IF m.err THEN m ELSE From(m.st.seek)

\* tail_from_reader
TailFromReader(m, tail_count) ==
    LET Positioned(m1) == DumpToTail(SeekWithShrinkHandling(m1, m1.ret))
    IN Positioned(TailStartPosition(m, tail_count))

\* tail2: the result of tail_from_reader is discarded, the state is returned
Tail2(path, p, tail_count) ==
    [TailFromReader(Machine(NewState(path), p), tail_count) EXCEPT !.err = FALSE]

---------------------------------------------------------------------------
(* Output items.  A banner stands for the line "==> path <==\n", a         *)
(* separator for one "\n" written by println!() or as the banner's         *)
(* preceding newline, a content item for one byte read from the file that  *)
(* path p names.                                                           *)

BannerItem(p) == [k |-> "banner", p |-> p, b |-> NL]
SepItem == [k |-> "sep", p |-> NoPath, b |-> NL]
ContentItems(p, bytes) == [i \in 1..Len(bytes) |-> [k |-> "byte", p |-> p, b |-> bytes[i]]]

\* the content bytes among a sequence of items
RECURSIVE ContentBytes(_)
ContentBytes(items) ==
    IF items = <<>> THEN <<>>
    ELSE IF Head(items).k = "byte" THEN <<Head(items).b>> \o ContentBytes(Tail(items))
    ELSE ContentBytes(Tail(items))

\* the stream summary after one more item:
\*   any     something has been written
\*   banner  path of the most recent banner
\*   open    the last banner or content item left its line unterminated
\*   seps    separators written since the last banner or content item
TtyStep(t, it) ==
    IF it.k = "sep" THEN [t EXCEPT !.any = TRUE, !.seps = Min(@ + 1, 3)]
    ELSE IF it.k = "banner"
         THEN [any |-> TRUE, banner |-> it.p, open |-> FALSE, seps |-> 0]
    ELSE [any |-> TRUE, banner |-> t.banner, open |-> (it.b # NL), seps |-> 0]

RECURSIVE TtyAfter(_, _)
TtyAfter(t, items) ==
    IF items = <<>> THEN t ELSE TtyAfter(TtyStep(t, Head(items)), Tail(items))

TtyInit == [any |-> FALSE, banner |-> NoPath, open |-> FALSE, seps |-> 0]

\* a step of the program: the event it handled (half: which half of a rename
\* the event was, "out" or "in"), and whether the handler found a tail state
\* to act on (handle_rename put one under the path, handle_remove dropped one)
Step(op, path, cookie) ==
    [op |-> op, path |-> path, cookie |-> cookie, half |-> "", hit |-> FALSE]

---------------------------------------------------------------------------
(* The tail engine on one file: tail(lines), then growth, truncation,      *)
(* dump_to_tail and handle_shrink in any order.                            *)

EngFile == "a"

InitTail ==
    /\ fs \in {(EngFile :> c) : c \in SeqsUpTo(TextBytes, MaxTailLen)}
    /\ lines \in 0..MaxLines
    /\ pool = <<>>
    /\ file_map = <<>>
    /\ renaming_map = <<>>
    /\ selected_file_path = NoPath
    /\ queue = <<>>
    /\ pc = "tail"
    /\ exit_code = 0
    /\ show_binary = FALSE
    /\ emitted = <<>>
    /\ last = Step("init", NoPath, 0)
    /\ tty = TtyInit
    /\ removed = {}
    /\ nops = 0
    /\ open_files = 0
    /\ denied = {}

EngUnchanged == UNCHANGED <<renaming_map, selected_file_path, queue,
                            exit_code, lines, show_binary, tty, removed, denied>>

\* the state, the pool and the output a call leaves; ret is what it returned
EngCommit(m, op, ret) ==
    /\ file_map' = (EngFile :> m.st)
    /\ pool' = m.pool
    /\ emitted' = ContentItems(EngFile, m.out)
    /\ last' = Step(op, EngFile, ret)
    /\ open_files' = open_files + m.fds
EngReturned(m, op) == EngCommit(m, op, m.ret)

\* tail2(path, repo, lines)
EngTail ==
    /\ pc = "tail"
    /\ EngCommit(Tail2(EngFile, pool, lines), "tail", 0)
    /\ pc' = "tailed"
    /\ UNCHANGED <<fs, nops>>
    /\ EngUnchanged

\* the file grows by one byte
EngAppend(b) ==
    /\ pc = "tailed"
    /\ nops < MaxOps
    /\ Len(fs[EngFile]) < MaxTailLen
    /\ fs' = [fs EXCEPT ![EngFile] = Append(@, b)]
    /\ nops' = nops + 1
    /\ last' = Step("grow", EngFile, 0)
    /\ UNCHANGED <<pool, file_map, emitted, pc, open_files>>
    /\ EngUnchanged

\* the file is cut to its first k bytes
EngTruncate(k) ==
    /\ pc = "tailed"
    /\ nops < MaxOps
    /\ k < Len(fs[EngFile])
    /\ fs' = [fs EXCEPT ![EngFile] = SubSeq(@, 1, k)]
    /\ nops' = nops + 1
    /\ last' = Step("cut", EngFile, 0)
    /\ UNCHANGED <<pool, file_map, emitted, pc, open_files>>
    /\ EngUnchanged

\* reader.dump_to_tail()
EngDump ==
    /\ pc = "tailed"
    /\ EngReturned(DumpToTail(Machine(file_map[EngFile], pool)), "dump")
    /\ UNCHANGED <<fs, nops, pc>>
    /\ EngUnchanged

\* reader.handle_shrink(offset)
EngShrink(offset) ==
    /\ pc = "tailed"
    /\ EngReturned(HandleShrink(Machine(file_map[EngFile], pool), offset), "shrink")
    /\ UNCHANGED <<fs, nops, pc>>
    /\ EngUnchanged

NextTail ==
    \/ EngTail
    \/ \E b \in TextBytes : EngAppend(b)
    \/ \E k \in 0..MaxTailLen : EngTruncate(k)
    \/ EngDump
    \/ \E offset \in 0..MaxTailLen : EngShrink(offset)

SpecTail == InitTail /\ [][NextTail]_vars

\* C14: handle_shrink(offset) returns true exactly when the file is shorter
\* than offset; after true current_seek is 0, after false current_seek and
\* printed_eol are what they were; it writes nothing to the sink.
C14_ShrinkRewinds ==
    [][\A offset \in 0..MaxTailLen :
          EngShrink(offset)
          => /\ (last'.cookie = 1) <=> (Len(fs[EngFile]) < offset)
             /\ last'.cookie = 1 => file_map'[EngFile].seek = 0
             /\ last'.cookie # 1
                  => /\ file_map'[EngFile].seek = file_map[EngFile].seek
                     /\ file_map'[EngFile].eol = file_map[EngFile].eol
             /\ emitted' = <<>>
      ]_vars

\* C14 happens: handle_shrink has returned true for a file that was cut after
\* its lines had been printed, and current_seek is back at 0
C14_Witness ==
    /\ last.op = "shrink" /\ last.cookie = 1
    /\ file_map[EngFile].eol
    /\ file_map[EngFile].seek = 0
    /\ nops >= 1

\* C15: with N = 0 tail_start_position returns the length of the file (0 for
\* the empty file), so tail(0) writes nothing and leaves current_seek at the
\* length of the file.
C15_TailZeroSeeksToEnd ==
    /\ (pc = "tail" /\ lines = 0)
          => TailStartPosition(Machine(NewState(EngFile), pool), 0).ret
                = Len(fs[EngFile])
    /\ (last.op = "tail" /\ lines = 0 /\ nops = 0)
          => /\ emitted = <<>>
             /\ file_map[EngFile].seek = Len(fs[EngFile])

\* C15 happens: tail(0) has run on a file that spans several windows
C15_Witness ==
    /\ last.op = "tail" /\ lines = 0
    /\ Len(fs[EngFile]) > BUFFER_SIZE
    /\ file_map[EngFile].seek = Len(fs[EngFile])

\* reader.dump_to_tail() into a writer that accepts at most cap bytes in one
\* call of write
EngDumpShort(cap) ==
    /\ pc = "tailed"
    /\ LET Short(m) == [m EXCEPT !.cap = cap]
       IN EngReturned(DumpToTail(Short(Machine(file_map[EngFile], pool))), "dump")
    /\ UNCHANGED <<fs, nops, pc>>
    /\ EngUnchanged

\* the tail engine over writers that may take less than they are offered
NextSink ==
    \/ NextTail
    \/ \E cap \in 1..BUFFER_SIZE : EngDumpShort(cap)

SpecSink == InitTail /\ [][NextSink]_vars

\* C36: dump_to_tail delivers every byte it reads to the sink, also when a
\* write accepts fewer bytes than it was offered: the bytes the sink has
\* received are exactly the bytes of the file from the offset at the call to
\* the offset at the return.
C36_ShortWriteLosesNothing ==
    [][(pc = "tailed" /\ last'.op = "dump"
          /\ UNCHANGED <<fs, nops>> /\ file_map' # file_map)
          => ContentBytes(emitted')
                = SubSeq(fs[EngFile], file_map[EngFile].seek + 1,
                         file_map'[EngFile].seek)
      ]_vars

\* C34: for every file length L and every N, tail_start_position returns an
\* offset in 0..L; for L >= 2 and N >= 1 the first window starts at a multiple
\* of BUFFER_SIZE (the assert_eq), and every window read after it starts
\* BUFFER_SIZE bytes before the one before, never below 0.
C34_OffsetAndWindowsInRange ==
    LET InRange(m) == m.ret \in 0..Len(fs[EngFile])
        Aligned(m, n) ==
            /\ \A i \in 1..Len(m.seeks) : m.seeks[i] >= 0
            /\ (Len(fs[EngFile]) >= 2 /\ n >= 1)
                  => /\ m.seeks # <<>>
                     /\ m.seeks[1] % BUFFER_SIZE = 0
                     /\ \A i \in 2..Len(m.seeks) :
                            m.seeks[i] = m.seeks[i - 1] - BUFFER_SIZE
    IN pc = "tail"
          => \A n \in 0..MaxLines :
                /\ InRange(TailStartPosition(Machine(NewState(EngFile), pool), n))
                /\ Aligned(TailStartPosition(Machine(NewState(EngFile), pool), n), n)

\* C34 happens: tail(N) has gone back through every window of a file of more
\* than two buffers whose last byte starts a window, and has returned 0
C34_Witness ==
    /\ last.op = "tail"
    /\ lines >= 1
    /\ Len(fs[EngFile]) > 2 * BUFFER_SIZE
    /\ (Len(fs[EngFile]) - 1) % BUFFER_SIZE = 0
    /\ nops = 0
    /\ Len(emitted) = Len(fs[EngFile])

\* C37: for every file and every N >= 1 the offset tail_start_position returns
\* is 0 or the position just after a newline byte, so what tail(N) prints
\* begins at the start of a line.
C37_OffsetStartsALine ==
    LET AtLineStart(m) == m.ret = 0 \/ fs[EngFile][m.ret] = NL
        Printed == Len(fs[EngFile]) - Len(emitted)
    IN /\ pc = "tail"
            => \A n \in 1..MaxLines :
                  AtLineStart(TailStartPosition(Machine(NewState(EngFile), pool), n))
       /\ (last.op = "tail" /\ lines >= 1 /\ nops = 0)
            => Printed = 0 \/ fs[EngFile][Printed] = NL

\* C37 happens: tail(N) has printed the end of a file of several windows
\* from an offset inside it
C37_Witness ==
    /\ last.op = "tail"
    /\ lines >= 1
    /\ nops = 0
    /\ Len(fs[EngFile]) > 2 * BUFFER_SIZE
    /\ Len(emitted) > 0
    /\ Len(emitted) < Len(fs[EngFile])

\* the windows a file of len bytes has: ceil(len / BUFFER_SIZE)
Windows(len) == (len + BUFFER_SIZE - 1) \div BUFFER_SIZE

\* C38: tail_start_position terminates for every file and every N having read
\* at most ceil(L / BUFFER_SIZE) windows; dump_to_tail terminates on a file
\* that does not grow: it returns when a read reaches the end of the file,
\* after at most one read per buffer of the remaining bytes, one more for a
\* first buffer that is cut short, and the empty read.
C38_ReadsAreBounded ==
    LET Scans(m) == m.reads <= Windows(Len(fs[EngFile]))
        Left(m) == Max(0, Len(fs[EngFile]) - m.st.seek)
        Dumps(m0, m) ==
            /\ m.reads <= Windows(Left(m0)) + 2
            /\ m.buf = <<>>
            /\ m.st.seek >= Len(fs[EngFile])
    IN /\ pc = "tail"
            => \A n \in 0..MaxLines :
                  Scans(TailStartPosition(Machine(NewState(EngFile), pool), n))
       /\ pc = "tailed"
            => Dumps(Machine(file_map[EngFile], pool),
                     DumpToTail(Machine(file_map[EngFile], pool)))

\* C38 happens: tail(N) has read every window of a file of several windows
\* that holds no newline, and a later dump_to_tail has returned at its end
C38_Witness ==
    /\ last.op = "dump"
    /\ lines >= 1
    /\ nops >= 1
    /\ Len(fs[EngFile]) > 2 * BUFFER_SIZE
    /\ \A i \in 1..Len(fs[EngFile]) : fs[EngFile][i] # NL
    /\ file_map[EngFile].seek = Len(fs[EngFile])

C26_EmptyDumpChangesNothing ==
    [][LET FirstRead(m) == Read(m, BUFFER_LEN - (m.st.seek % BUFFER_LEN))
           Quiet(m) == m.out = <<>> /\ m.flushes = 0
       IN (EngDump /\ FirstRead(Machine(file_map[EngFile], pool)).buf = <<>>)
          => /\ last'.cookie = file_map[EngFile].seek
             /\ emitted' = <<>>
             /\ Quiet(DumpToTail(Machine(file_map[EngFile], pool)))
             /\ file_map'[EngFile].seek = file_map[EngFile].seek
             /\ file_map'[EngFile].eol = file_map[EngFile].eol
      ]_vars

\* C26 happens: after a line and its newline were printed, dump_to_tail has
\* run with current_seek at the end of the file and printed_eol still holds
C26_Witness ==
    /\ last.op = "dump"
    /\ emitted = <<>>
    /\ file_map[EngFile].seek = Len(fs[EngFile])
    /\ file_map[EngFile].seek > 0
    /\ file_map[EngFile].eol

---------------------------------------------------------------------------
(* Readers sharing one pool: a TransparentReader per file, more readers    *)
(* than MAX_FILE_HANDLE, and reads, seeks and length queries in any order. *)

ReaderPaths == {"a", "b", "c"}
ReaderContents == {<<97, NL>>, <<97, NL, 98>>}

InitReader ==
    /\ fs \in [ReaderPaths -> ReaderContents]
    /\ file_map = [p \in ReaderPaths |-> NewState(p)]
    /\ pool = <<>>
    /\ renaming_map = <<>>
    /\ selected_file_path = NoPath
    /\ queue = <<>>
    /\ pc = "readers"
    /\ exit_code = 0
    /\ lines = 0
    /\ show_binary = FALSE
    /\ emitted = <<>>
    /\ last = Step("init", NoPath, 0)
    /\ tty = TtyInit
    /\ removed = {}
    /\ nops = 0
    /\ open_files = 0
    /\ denied = {}

\* the reader of path p after a call, the pool, the bytes the call returned
RdCommit(m, p, op, arg) ==
    /\ file_map' = Upgradable([file_map EXCEPT ![p] = m.st], m.pool)
    /\ pool' = m.pool
    /\ emitted' = ContentItems(p, m.buf)
    /\ last' = Step(op, p, arg)
    /\ nops' = nops + 1
    /\ open_files' = open_files + m.fds
    /\ UNCHANGED <<fs, pc>>
    /\ EngUnchanged
RdReturned(m, p, op) == RdCommit(m, p, op, m.ret)

\* reader.read(&mut buf) with a buffer of n bytes
RdRead(p, n) ==
    /\ pc = "readers"
    /\ nops < MaxCalls
    /\ RdCommit(Read(Machine(file_map[p], pool), n), p, "read", n)

\* reader.seek(SeekFrom::whence(off))
RdSeek(p, whence, off) ==
    /\ pc = "readers"
    /\ nops < MaxCalls
    /\ RdReturned(Seek(Machine(file_map[p], pool), whence, off), p, "seek")

\* reader.len()
RdLen(p) ==
    /\ pc = "readers"
    /\ nops < MaxCalls
    /\ RdReturned(LengthOf(Machine(file_map[p], pool)), p, "len")

\* dump_to_tail() of the TailState over the reader of path p
RdDump(p) ==
    /\ pc = "readers"
    /\ nops < MaxCalls
    /\ LET Dumped(m) ==
               /\ file_map' = Upgradable([file_map EXCEPT ![p] = m.st], m.pool)
               /\ pool' = m.pool
               /\ emitted' = ContentItems(p, m.out)
               /\ last' = Step("dump", p, m.ret)
               /\ open_files' = open_files + m.fds
       IN Dumped(DumpToTail(Machine(file_map[p], pool)))
    /\ nops' = nops + 1
    /\ UNCHANGED <<fs, pc>>
    /\ EngUnchanged

NextReader ==
    \/ \E p \in ReaderPaths, n \in 1..BUFFER_SIZE : RdRead(p, n)
    \/ \E p \in ReaderPaths : RdDump(p)
    \/ \E p \in ReaderPaths, whence \in {"Start", "Current", "End"}, off \in 0..1 :
            RdSeek(p, whence, off)
    \/ \E p \in ReaderPaths : RdLen(p)

SpecReader == InitReader /\ [][NextReader]_vars

\* C3: whatever reads, seeks and length queries the readers of one pool have
\* made, and whichever handles were evicted and reopened, a read by a reader
\* returns the bytes of its file that start at its own reader_seek_pos and
\* advances that position by the number of bytes returned.
C3_ReadAtOwnPosition ==
    [][\A p \in ReaderPaths :
          (pc = "readers" /\ last'.op = "read" /\ last'.path = p)
          => /\ ContentBytes(emitted')
                  = SubSeq(fs[p], file_map[p].seek + 1,
                           Min(Len(fs[p]), file_map[p].seek + last'.cookie))
             /\ file_map'[p].seek = file_map[p].seek + Len(emitted')
      ]_vars

\* C13: a dump_to_tail that read at least one byte has written exactly the
\* bytes of the file from current_seek at the call to the end of the file;
\* current_seek and the value returned are then the file's length, and
\* printed_eol tells whether the last byte written was a newline.
C13_DumpEmitsToEnd ==
    [][\A p \in ReaderPaths :
          (pc = "readers" /\ last'.op = "dump" /\ last'.path = p /\ emitted' # <<>>)
          => /\ ContentBytes(emitted')
                  = SubSeq(fs[p], file_map[p].seek + 1, Len(fs[p]))
             /\ file_map'[p].seek = Len(fs[p])
             /\ last'.cookie = Len(fs[p])
             /\ file_map'[p].eol = (Last(ContentBytes(emitted')) = NL)
      ]_vars

\* C24: eviction is least recently used with respect to access, a read served
\* through the reader's cached weak reference included: the entry a reader
\* has just read through is the most recently used one, so it is never the
\* entry the next insertion into the full pool evicts (the head of the pool)
\* while the pool holds another entry.
C24_ReadIsAUse ==
    [][\A p \in ReaderPaths :
          (/\ pc = "readers"
           /\ last'.op = "read"
           /\ last'.path = p
           /\ Len(pool') >= 2)
          => Head(pool').key # p
      ]_vars

---------------------------------------------------------------------------
(* What tail(N) is to print: the suffix that begins just after the Nth     *)
(* newline from the end, a newline that is the final byte not counted;     *)
(* the whole file when there are fewer.                                    *)

CountedNewlines(c) == {i \in 1..Len(c) : c[i] = NL /\ i # Len(c)}

ExpectedTail(c, n) ==
    LET P == CountedNewlines(c) IN
    IF Cardinality(P) < n THEN c
    ELSE LET i == CHOOSE j \in P : Cardinality({q \in P : q >= j}) = n
         IN SubSeq(c, i + 1, Len(c))

\* C1: for every file of length L >= 1 and every N >= 1, tail(N) writes exactly
\* the suffix after the Nth newline from the end (final-byte newline not
\* counted), or the whole file when fewer such newlines exist.
C1_TailEmitsLastLines ==
    (last.op = "tail" /\ lines >= 1 /\ Len(fs[EngFile]) >= 1)
        => ContentBytes(emitted) = ExpectedTail(fs[EngFile], lines)

---------------------------------------------------------------------------
(* PathFilter *)

\* filter.rs:29
MAX_BUFFER_SIZE == 1024

\* PathFilter::match_path: the regex of the runs matches every path but "x"
MatchPath(path) == path # "x"

\* is_text: false when the file cannot be opened; content_inspector reports
\* BINARY for a NUL byte among the first
\* MAX_BUFFER_SIZE bytes; every other byte of the runs is valid UTF-8
IsText(path) ==
    /\ CanOpen(path)
    /\ LET d == fs[path]
       IN \A i \in 1..Min(Len(d), MAX_BUFFER_SIZE) : d[i] # NUL

\* PathFilter::filtered_files: the walk sorted by path, files matching the
\* regex, binary files dropped unless show_binary
FilteredFiles ==
    SelectSeq(PathOrder,
              LAMBDA p : /\ p \in DOMAIN fs
                         /\ MatchPath(p)
                         /\ (show_binary \/ IsText(p)))

---------------------------------------------------------------------------
(* DirectoryWatcher.  A world w threads the watcher's fields through one   *)
(* handler: fm = file_map, rm = renaming_map, pool = repository,           *)
(* sel = selected_file_path, out = items printed, err = handler returned   *)
(* Err, hit = the handler found a tail state to act on, fds = File values  *)
(* alive.                                                                  *)

World ==
    [fm |-> file_map, rm |-> renaming_map, pool |-> pool,
     sel |-> selected_file_path, out |-> <<>>, err |-> FALSE, hit |-> FALSE,
     fds |-> open_files]

\* print_file_path writing the preceding newline whether or not a file is
\* selected
PrintFilePath_AlwaysPreceding(w, path) ==
    LET eol == IF w.sel # NoPath /\ w.sel \in DOMAIN w.fm /\ ~w.fm[w.sel].eol
               THEN <<SepItem>> ELSE <<>>
    IN [w EXCEPT !.out = @ \o eol \o <<SepItem>> \o <<BannerItem(path)>>]

\* DirectoryWatcher::print_file_path
PrintFilePath(w, path) ==
    LET eol == IF w.sel # NoPath /\ w.sel \in DOMAIN w.fm /\ ~w.fm[w.sel].eol
               THEN <<SepItem>> ELSE <<>>
        preceding == IF w.sel # NoPath THEN <<SepItem>> ELSE <<>>
    IN [w EXCEPT !.out = @ \o eol \o preceding \o <<BannerItem(path)>>]

\* DirectoryWatcher::unsubscribe_select_file
UnsubscribeSelectFile(w, path, reader) ==
    IF w.sel = path
    THEN [w EXCEPT !.out = @ \o (IF ~reader.eol THEN <<SepItem>> ELSE <<>>)
                             \o <<SepItem>>,
                   !.sel = NoPath]
    ELSE w

\* DirectoryWatcher::change_selected_file
ChangeSelectedFile(w, path) ==
    IF w.sel # path THEN [PrintFilePath(w, path) EXCEPT !.sel = path] ELSE w

\* handle_write, file_map.get_mut(&path) is Some(reader)
WriteTracked(w, path) ==
    LET Done(m) == [w EXCEPT !.fm[path] = m.st,
                             !.pool = m.pool,
                             !.out = @ \o ContentItems(SourceOf(m), m.out),
                             !.err = m.err,
                             !.fds = @ + m.fds]
        From(m0) == Done(DumpToTail(HandleShrink(m0, m0.st.seek)))
    IN From(Machine(w.fm[path], w.pool))

\* handle_write, file_map.get_mut(&path) is None
WriteUntracked(w, path) ==
    LET Done(m) == [w EXCEPT !.fm = IF m.err THEN @ ELSE Put(@, path, m.st),
                             !.pool = m.pool,
                             !.out = @ \o ContentItems(SourceOf(m), m.out),
                             !.err = m.err,
                             !.fds = @ + m.fds]
    IN IF path \notin DOMAIN fs THEN w
       ELSE Done(DumpToTail(Machine(NewState(path), w.pool)))

\* DirectoryWatcher::handle_write
HandleWrite(w, path) ==
    LET Selected(w1) ==
            IF path \in DOMAIN w1.fm THEN WriteTracked(w1, path)
            ELSE WriteUntracked(w1, path)
    IN IF ~MatchPath(path) THEN w ELSE Selected(ChangeSelectedFile(w, path))

\* the Some(file) branch forgetting the state it took out of renaming_map
RenameSecond_Dropped(w, path, cookie) == [w EXCEPT !.rm = Remove(@, cookie)]

\* the Some(None) branch starting to track the path of the event
RenameSecond_TracksTombstone(w, path, cookie) ==
    LET file == w.rm[cookie]
        w1 == [w EXCEPT !.rm = Remove(@, cookie)]
    IN IF file = <<>> THEN [w1 EXCEPT !.fm = Put(@, path, NewState(path))]
       ELSE IF ~MatchPath(path) THEN w1
       ELSE [w1 EXCEPT !.fm = Put(@, path, file[1]), !.hit = TRUE]

\* the Some(file) branch inserting the state whatever the new path is
RenameSecond_AnyTarget(w, path, cookie) ==
    LET file == w.rm[cookie]
        w1 == [w EXCEPT !.rm = Remove(@, cookie)]
    IN IF file = <<>> THEN w1
       ELSE [w1 EXCEPT !.fm = Put(@, path, file[1]), !.hit = TRUE]

\* handle_rename, renaming_map.remove(&cookie) is Some(file)
RenameSecond(w, path, cookie) ==
    LET file == w.rm[cookie]
        w1 == [w EXCEPT !.rm = Remove(@, cookie)]
    IN IF file = <<>> THEN w1
       ELSE IF ~MatchPath(path) THEN w1
       ELSE [w1 EXCEPT !.fm = Put(@, path, file[1]), !.hit = TRUE]

\* the None branch leaving no entry behind for a path that is not tracked
RenameFirst_NoTombstone(w, path, cookie) ==
    IF path \in DOMAIN w.fm
    THEN LET file == w.fm[path]
             w1 == UnsubscribeSelectFile([w EXCEPT !.fm = Remove(@, path)], path, file)
         IN [w1 EXCEPT !.rm = Put(@, cookie, <<file>>)]
    ELSE w

\* handle_rename, renaming_map.remove(&cookie) is None
RenameFirst(w, path, cookie) ==
    IF path \in DOMAIN w.fm
    THEN LET file == w.fm[path]
             w1 == UnsubscribeSelectFile([w EXCEPT !.fm = Remove(@, path)], path, file)
         IN [w1 EXCEPT !.rm = Put(@, cookie, <<file>>)]
    ELSE [w EXCEPT !.rm = Put(@, cookie, <<>>)]

\* RawEvent::cookie is None
NoCookie == 0

\* DirectoryWatcher::handle_rename: nothing is done without a cookie
HandleRename(w, path, cookie) ==
    IF cookie = NoCookie THEN w
    ELSE IF cookie \in DOMAIN w.rm THEN RenameSecond(w, path, cookie)
    ELSE RenameFirst(w, path, cookie)

\* DirectoryWatcher::handle_remove
HandleRemove(w, path) ==
    IF path \in DOMAIN w.fm
    THEN LET reader == w.fm[path]
             w1 == [w EXCEPT !.fm = Remove(@, path), !.pool = LruPop(@, path),
                             !.hit = TRUE,
                             !.fds = @ - (IF HasKey(w.pool, path) THEN 1 ELSE 0)]
         IN UnsubscribeSelectFile(w1, path, reader)
    ELSE w

\* pending_delete_file: a fresh File::open fails with PermissionDenied
PendingDeleteFile(path) == path \in DOMAIN fs /\ path \in denied

\* handle_pending_delete, the loop over pending_delete_files
RECURSIVE ReleasePending(_, _)
ReleasePending(w, paths) ==
    IF paths = <<>> THEN w
    ELSE LET path == Head(paths)
             Popped(w1) ==
                 IF path \in DOMAIN w1.fm
                 THEN UnsubscribeSelectFile([w1 EXCEPT !.fm = Remove(@, path)],
                                            path, w1.fm[path])
                 ELSE w1
         IN ReleasePending(
                Popped([w EXCEPT
                          !.pool = LruPop(@, path),
                          !.fds = @ - (IF HasKey(w.pool, path) THEN 1 ELSE 0)]),
                Tail(paths))

\* DirectoryWatcher::handle_pending_delete; windows is cfg!(target_os = "windows")
HandlePendingDelete(w, windows) ==
    IF ~windows THEN w
    ELSE ReleasePending(w, SelectSeq(PathOrder,
                                     LAMBDA p : p \in DOMAIN w.fm /\ PendingDeleteFile(p)))

\* follow_dir, the loop for opt.lines == 0
RECURSIVE BootQuiet(_, _)
BootQuiet(w, files) ==
    IF files = <<>> THEN w
    ELSE LET Tailed(m) ==
                 [w EXCEPT !.fm = Upgradable(Put(@, Head(files), m.st), m.pool),
                           !.pool = m.pool,
                           !.fds = @ + m.fds]
             Rest(w1) == BootQuiet(w1, Tail(files))
         IN Rest(Tailed(Tail2(Head(files), w.pool, 0)))

\* follow_dir, the loop for opt.lines > 0; prev is prev_reader
RECURSIVE BootTail(_, _, _)
BootTail(w, files, prev) ==
    IF files = <<>> THEN w
    ELSE LET path == Head(files)
             sep == IF w.sel # NoPath
                    THEN (IF prev # <<>> /\ ~prev[1].eol THEN <<SepItem>> ELSE <<>>)
                         \o <<SepItem>>
                    ELSE <<>>
             Tailed(m) ==
                 [w EXCEPT !.out = @ \o sep \o <<BannerItem(path)>>
                                     \o ContentItems(SourceOf(m), m.out),
                           !.fm = Upgradable(Put(@, path, m.st), m.pool),
                           !.pool = m.pool,
                           !.sel = path,
                           !.fds = @ + m.fds]
             Rest(w1) == BootTail(w1, Tail(files), <<w1.fm[path]>>)
         IN Rest(Tailed(Tail2(path, w.pool, lines)))

\* notify::Op is a set of flags; an event's op is written as the names of its
\* flags joined by "|"
Bits(op) ==
    CASE op = "CREATE" -> {"CREATE"}
      [] op = "CHMOD" -> {"CHMOD"}
      [] op = "WRITE" -> {"WRITE"}
      [] op = "REMOVE" -> {"REMOVE"}
      [] op = "RENAME" -> {"RENAME"}
      [] op = "CREATE|WRITE" -> {"CREATE", "WRITE"}
      [] op = "REMOVE|WRITE" -> {"REMOVE", "WRITE"}
      [] op = "RENAME|WRITE" -> {"RENAME", "WRITE"}
      [] op = "REMOVE|RENAME" -> {"REMOVE", "RENAME"}

\* op.contains(flag)
Contains(op, flag) == flag \in Bits(op)

\* the macOS dispatch handling a co-reported WRITE before the REMOVE
DispatchMac_WriteFirst(w, ev) ==
    IF Contains(ev.op, "RENAME") /\ ev.cookie # NoCookie
    THEN HandleRename(w, ev.path, ev.cookie)
    ELSE LET Written(w1) ==
                 IF Contains(ev.op, "REMOVE") /\ ~Contains(ev.op, "RENAME")
                        /\ ~w1.err
                 THEN HandleRemove(w1, ev.path) ELSE w1
         IN Written(IF Contains(ev.op, "WRITE") THEN HandleWrite(w, ev.path)
                    ELSE w)

\* the dispatch of follow_dir on macOS
DispatchMac(w, ev) ==
    IF Contains(ev.op, "RENAME") /\ ev.cookie # NoCookie
    THEN HandleRename(w, ev.path, ev.cookie)
    ELSE LET Removed(w1) ==
                 IF Contains(ev.op, "WRITE") THEN HandleWrite(w1, ev.path) ELSE w1
         IN Removed(IF Contains(ev.op, "REMOVE") /\ ~Contains(ev.op, "RENAME")
                    THEN HandleRemove(w, ev.path) ELSE w)

\* a dispatch that acts on every flag an event contains
Dispatch_Contains(w, ev) ==
    CASE Contains(ev.op, "WRITE") -> HandleWrite(w, ev.path)
      [] Contains(ev.op, "REMOVE") -> HandleRemove(w, ev.path)
      [] Contains(ev.op, "RENAME") -> HandleRename(w, ev.path, ev.cookie)
      [] OTHER -> w

\* the dispatch of follow_dir on platforms other than macOS
Dispatch(w, ev) ==
    CASE ev.op = "WRITE" -> HandleWrite(w, ev.path)
      [] ev.op = "REMOVE" -> HandleRemove(w, ev.path)
      [] ev.op = "RENAME" -> HandleRename(w, ev.path, ev.cookie)
      [] OTHER -> w

---------------------------------------------------------------------------
(* The file system and the watch loop *)

\* RawEvent {path, op, cookie}; half tells which half of a rename the event is
\* ("out": the source path, "in": the target path), which the watcher cannot see
Event(op, path, cookie) == [op |-> op, path |-> path, cookie |-> cookie, half |-> ""]
RenameEvent(path, cookie, half) ==
    [op |-> "RENAME", path |-> path, cookie |-> cookie, half |-> half]

\* the file at path loses this name: the handles on it keep its bytes
Unlink(p, path) ==
    [i \in 1..Len(p) |->
        IF p[i].file = path
        THEN [p[i] EXCEPT !.file = NoPath, !.gone = fs[path]]
        ELSE p[i]]

\* the file at src is now at dst: the handles on it follow
Relink(p, src, dst) ==
    [i \in 1..Len(p) |-> IF p[i].file = src THEN [p[i] EXCEPT !.file = dst] ELSE p[i]]

\* the watcher handles the events of one change before the next change
EnvReady == pc = "loop" /\ queue = <<>>

EnvUnchanged == UNCHANGED <<file_map, renaming_map, selected_file_path, pc,
                            exit_code, lines, show_binary, emitted, last, tty,
                            removed, open_files>>

\* put_file on a new path
EnvCreate(path, content) ==
    /\ EnvReady
    /\ path \notin DOMAIN fs
    /\ fs' = Put(fs, path, content)
    /\ queue' = <<Event("WRITE", path, 0)>>
    /\ nops' = nops + 1
    /\ UNCHANGED <<pool, denied>>
    /\ EnvUnchanged

\* a new file that the program has no permission to open
EnvCreateDenied(path, content) ==
    /\ EnvReady
    /\ path \notin DOMAIN fs
    /\ fs' = Put(fs, path, content)
    /\ denied' = denied \cup {path}
    /\ queue' = <<Event("WRITE", path, 0)>>
    /\ nops' = nops + 1
    /\ UNCHANGED pool
    /\ EnvUnchanged

\* append_file
EnvAppend(path, b) ==
    /\ EnvReady
    /\ path \in DOMAIN fs
    /\ Len(fs[path]) < MaxLen
    /\ fs' = [fs EXCEPT ![path] = Append(@, b)]
    /\ queue' = <<Event("WRITE", path, 0)>>
    /\ nops' = nops + 1
    /\ UNCHANGED <<pool, denied>>
    /\ EnvUnchanged

\* the file is truncated to nothing
EnvTruncate(path) ==
    /\ EnvReady
    /\ path \in DOMAIN fs
    /\ Len(fs[path]) > 0
    /\ fs' = [fs EXCEPT ![path] = <<>>]
    /\ queue' = <<Event("WRITE", path, 0)>>
    /\ nops' = nops + 1
    /\ UNCHANGED <<pool, denied>>
    /\ EnvUnchanged

\* remove_file
EnvRemove(path) ==
    /\ EnvReady
    /\ path \in DOMAIN fs
    /\ fs' = Remove(fs, path)
    /\ pool' = Unlink(pool, path)
    /\ queue' = <<Event("REMOVE", path, 0)>>
    /\ nops' = nops + 1
    /\ denied' = denied \ {path}
    /\ EnvUnchanged

\* rename_file: the two halves carry one cookie; source-out arrives first when
\* srcFirst, else target-in does
EnvRename(src, dst, srcFirst) ==
    /\ EnvReady
    /\ src \in DOMAIN fs
    /\ src # dst
    /\ fs' = Put(Remove(fs, src), dst, fs[src])
    /\ pool' = Relink(IF dst \in DOMAIN fs THEN Unlink(pool, dst) ELSE pool, src, dst)
    /\ LET cookie == nops + 1 IN
       queue' = IF srcFirst
                THEN <<RenameEvent(src, cookie, "out"), RenameEvent(dst, cookie, "in")>>
                ELSE <<RenameEvent(dst, cookie, "in"), RenameEvent(src, cookie, "out")>>
    /\ nops' = nops + 1
    /\ denied' = (denied \ {src, dst}) \cup (IF src \in denied THEN {dst} ELSE {})
    /\ EnvUnchanged

\* the effect of one program step that leaves the world w
Commit(w) ==
    /\ file_map' = Upgradable(w.fm, w.pool)
    /\ renaming_map' = UpgradableOpt(w.rm, w.pool)
    /\ pool' = w.pool
    /\ selected_file_path' = w.sel
    /\ emitted' = w.out
    /\ tty' = TtyAfter(tty, w.out)
    /\ open_files' = w.fds
    /\ UNCHANGED <<fs, lines, show_binary, nops, denied>>

\* follow_dir up to the start of the event loop
Bootstrap ==
    /\ pc = "start"
    /\ Commit(IF lines = 0 THEN BootQuiet(World, FilteredFiles)
              ELSE BootTail(World, FilteredFiles, <<>>))
    /\ pc' = "loop"
    /\ last' = Step("BOOT", NoPath, 0)
    /\ UNCHANGED <<queue, exit_code, removed>>

\* the ways follow_dir ends with an error: the variants of notify::Error
ErrorKinds == {"Generic", "Io", "PathNotFound", "WatchNotFound"}

\* the ways the program fails before follow_dir: clap rejects the options,
\* PathFilter::new rejects the regex, the watch path is not a directory
ConfigFailures == {"BadOption", "BadRegex", "NotDirectory"}

\* an exit code that does not tell the kinds of error apart
ExitCode_AllGeneric(error) == EX_ERR

\* follow: the exit code for the error follow_dir returned
ExitCode(error) ==
    CASE error = "Generic" -> EX_ERR
      [] error = "Io" -> EX_IOERR
      [] error = "PathNotFound" -> EX_NOINPUT
      [] error = "WatchNotFound" -> EX_SOFTWARE

\* what the handling of ev leaves: an io::Error of handle_write ends follow_dir
\* with notify::Error::Io
Handled(w, ev) ==
    /\ Commit(w)
    /\ last' = [Step(ev.op, ev.path, ev.cookie) EXCEPT
                    !.half = ev.half, !.hit = w.hit]
    /\ removed' = IF ev.op = "REMOVE" /\ w.hit THEN removed \cup {ev.path}
                  ELSE IF ev.op = "WRITE" \/ w.hit THEN removed \ {ev.path}
                  ELSE removed
    /\ pc' = IF w.err THEN "exit" ELSE "loop"
    /\ exit_code' = IF w.err THEN ExitCode("Io") ELSE exit_code

\* one turn of the event loop
HandleEvent ==
    /\ pc = "loop"
    /\ queue # <<>>
    /\ Handled(Dispatch(World, Head(queue)), Head(queue))
    /\ queue' = Tail(queue)

\* the files of the watched directory when the program starts
StartContents == {<<>>, <<97>>, <<97, NL>>, <<NUL>>}
StartFiles ==
    {f \in UNION {[S -> StartContents] : S \in SUBSET {"a", "b", "c"}} :
        "c" \in DOMAIN f => f["c"] = <<97>>}

\* the bytes a new file is written with
CreateContents == {<<97>>, <<NL>>, <<NUL>>}

Init ==
    /\ fs \in StartFiles
    /\ pool = <<>>
    /\ file_map = <<>>
    /\ renaming_map = <<>>
    /\ selected_file_path = NoPath
    /\ queue = <<>>
    /\ pc = "start"
    /\ exit_code = 0
    /\ lines \in {0, 1}
    /\ show_binary = FALSE
    /\ emitted = <<>>
    /\ last = Step("init", NoPath, 0)
    /\ tty = TtyInit
    /\ removed = {}
    /\ nops = 0
    /\ open_files = 0
    /\ denied = {}

Next ==
    \/ nops < MaxOps /\ \E p \in Paths, c \in CreateContents : EnvCreate(p, c)
    \/ nops < MaxOps /\ \E p \in Paths, b \in TextBytes : EnvAppend(p, b)
    \/ nops < MaxOps /\ \E p \in Paths : EnvTruncate(p)
    \/ nops < MaxOps /\ \E p \in Paths : EnvRemove(p)
    \/ nops < MaxOps /\ \E p \in Paths, q \in Paths, o \in BOOLEAN : EnvRename(p, q, o)
    \/ Bootstrap
    \/ HandleEvent

Spec == Init /\ [][Next]_vars

\* the runs in which files are only created and appended to
NextAppend ==
    \/ nops < MaxOps /\ \E p \in Paths, c \in CreateContents : EnvCreate(p, c)
    \/ nops < MaxOps /\ \E p \in Paths, b \in TextBytes : EnvAppend(p, b)
    \/ Bootstrap
    \/ HandleEvent

SpecAppend == Init /\ [][NextAppend]_vars

\* the runs in which the path "a" is vacated and taken again: the directory
\* starts with the matching file "a" and the non-matching file "x"
InitReuse ==
    /\ fs = ("a" :> <<97>>) @@ ("x" :> <<97>>)
    /\ pool = <<>>
    /\ file_map = <<>>
    /\ renaming_map = <<>>
    /\ selected_file_path = NoPath
    /\ queue = <<>>
    /\ pc = "start"
    /\ exit_code = 0
    /\ lines = 1
    /\ show_binary = FALSE
    /\ emitted = <<>>
    /\ last = Step("init", NoPath, 0)
    /\ tty = TtyInit
    /\ removed = {}
    /\ nops = 0
    /\ open_files = 0
    /\ denied = {}

NextReuse ==
    \/ nops < MaxReuseOps /\ \E p \in {"a", "b"} : EnvCreate(p, <<97>>)
    \/ nops < MaxReuseOps /\ \E p \in {"a", "b", "x"} : EnvAppend(p, 97)
    \/ nops < MaxReuseOps /\ \E p \in {"a", "b"} : EnvRemove(p)
    \/ nops < MaxReuseOps /\ \E p \in {"a", "b", "x"}, q \in {"a", "b", "x"} :
                                EnvRename(p, q, TRUE)
    \/ Bootstrap
    \/ HandleEvent

SpecReuse == InitReuse /\ [][NextReuse]_vars

\* the runs in which some files cannot be opened: the directory starts with
\* any of "a" and "b", readable or not, with or without --show-binary
DeniedPaths == {"a", "b"}
DeniedContents == {<<97>>, <<97, NL>>}

InitDenied ==
    /\ fs \in UNION {[S -> DeniedContents] : S \in SUBSET DeniedPaths}
    /\ denied \in SUBSET DOMAIN fs
    /\ pool = <<>>
    /\ file_map = <<>>
    /\ renaming_map = <<>>
    /\ selected_file_path = NoPath
    /\ queue = <<>>
    /\ pc = "start"
    /\ exit_code = 0
    /\ lines \in {0, 1}
    /\ show_binary \in BOOLEAN
    /\ emitted = <<>>
    /\ last = Step("init", NoPath, 0)
    /\ tty = TtyInit
    /\ removed = {}
    /\ nops = 0
    /\ open_files = 0

NextDenied ==
    \/ nops < MaxOps /\ \E p \in DeniedPaths, c \in DeniedContents : EnvCreate(p, c)
    \/ nops < MaxOps /\ \E p \in DeniedPaths, c \in DeniedContents :
                            EnvCreateDenied(p, c)
    \/ nops < MaxOps /\ \E p \in DeniedPaths, b \in TextBytes : EnvAppend(p, b)
    \/ Bootstrap
    \/ HandleEvent

SpecDenied == InitDenied /\ [][NextDenied]_vars

\* the program ends with the given exit code, the reason being kind
Exits(kind, code) ==
    /\ pc' = "exit"
    /\ exit_code' = code
    /\ last' = Step(kind, NoPath, 0)
    /\ UNCHANGED <<fs, pool, file_map, renaming_map, selected_file_path, queue,
                   lines, show_binary, emitted, tty, removed, nops, open_files,
                   denied>>

\* Opt::generate or DirectoryWatcher::new fails: app returns the error code
ConfigFails(failure) ==
    /\ pc = "start"
    /\ Exits(failure, EX_ERR)

\* raw_watcher or watcher.watch fails after the bootstrap
WatchFails(error) ==
    /\ pc = "loop"
    /\ last.op = "BOOT"
    /\ queue = <<>>
    /\ Exits(error, ExitCode(error))

\* the channel delivers a broken event or is disconnected: a Generic error
ChannelFails ==
    /\ pc = "loop"
    /\ queue = <<>>
    /\ Exits("Generic", ExitCode("Generic"))

\* the runs in which the program may fail in every way it can
NextExit ==
    \/ NextDenied
    \/ \E failure \in ConfigFailures : ConfigFails(failure)
    \/ \E error \in ErrorKinds : WatchFails(error)
    \/ ChannelFails

SpecExit == InitDenied /\ [][NextExit]_vars

\* C21: the exit code tells how the program ended: 1 for a Generic watcher
\* error and for a configuration failure, 74 for an I/O error (of the watcher
\* or of handle_write), 66 for PathNotFound, 70 for WatchNotFound; no other
\* code comes out of an error path.
C21_ExitCodeTellsError ==
    pc = "exit"
        => /\ exit_code \in {1, 66, 70, 74}
           /\ (last.op = "Generic" \/ last.op \in ConfigFailures) <=> exit_code = 1
           /\ (last.op = "Io" \/ last.op = "WRITE") <=> exit_code = 74
           /\ last.op = "PathNotFound" <=> exit_code = 66
           /\ last.op = "WatchNotFound" <=> exit_code = 70

\* C21 happens: the watcher reported PathNotFound and the program has exited
C21_Witness ==
    /\ pc = "exit"
    /\ last.op = "PathNotFound"
    /\ file_map # <<>>

\* a RawEvent with no path, or whose op is an Err
BrokenEvent == [op |-> "BROKEN", path |-> NoPath, cookie |-> NoCookie, half |-> ""]

\* a new file whose WRITE event comes after a broken event of the backend
EnvBroken(path, content) ==
    /\ EnvReady
    /\ path \notin DOMAIN fs
    /\ fs' = Put(fs, path, content)
    /\ queue' = <<BrokenEvent, Event("WRITE", path, NoCookie)>>
    /\ nops' = nops + 1
    /\ UNCHANGED <<pool, denied>>
    /\ EnvUnchanged

\* rx.recv_timeout returns a well-formed event
RecvEvent ==
    /\ pc = "loop"
    /\ queue # <<>>
    /\ Head(queue) # BrokenEvent
    /\ HandleEvent

\* a loop that drops a broken event and goes on
RecvBroken_Skips ==
    /\ pc = "loop"
    /\ queue # <<>>
    /\ Head(queue) = BrokenEvent
    /\ queue' = Tail(queue)
    /\ last' = Step("BROKEN", NoPath, 0)
    /\ UNCHANGED <<fs, pool, file_map, renaming_map, selected_file_path, pc,
                   exit_code, lines, show_binary, emitted, tty, removed, nops,
                   open_files, denied>>

\* rx.recv_timeout returns a broken event: follow_dir returns a Generic error
RecvBroken ==
    /\ pc = "loop"
    /\ queue # <<>>
    /\ Head(queue) = BrokenEvent
    /\ Exits("Generic", ExitCode("Generic"))

\* rx.recv_timeout returns Timeout: the sweep, which does nothing off Windows
Timeout ==
    /\ pc = "loop"
    /\ queue = <<>>
    /\ Commit(HandlePendingDelete(World, FALSE))
    /\ last' = Step("TIMEOUT", NoPath, 0)
    /\ UNCHANGED <<queue, pc, exit_code, removed>>

\* the event loop with everything rx.recv_timeout can return
NextChannel ==
    \/ nops < MaxOps /\ \E p \in DeniedPaths, c \in DeniedContents : EnvCreate(p, c)
    \/ nops < MaxOps /\ \E p \in DeniedPaths, c \in DeniedContents :
                            EnvCreateDenied(p, c)
    \/ nops < MaxOps /\ \E p \in DeniedPaths, b \in TextBytes : EnvAppend(p, b)
    \/ nops < MaxOps /\ \E p \in DeniedPaths, c \in DeniedContents : EnvBroken(p, c)
    \/ Bootstrap
    \/ RecvEvent
    \/ RecvBroken
    \/ Timeout
    \/ ChannelFails

SpecChannel == InitDenied /\ [][NextChannel]_vars

---------------------------------------------------------------------------
(* Events whose op is not one flag.  The watcher's backend reports for a   *)
(* path the flags of what happened to it since the last report: a file     *)
(* created and written at once, a file replaced by a new one, a rename     *)
(* reported together with a write or with the removal of an earlier file,  *)
(* a file moved in from outside the watched directory (no cookie).         *)

MaxFlagOps == 3
FlagPaths == {"a", "b"}

InitFlags ==
    /\ fs \in UNION {[S -> {<<97>>}] : S \in SUBSET FlagPaths}
    /\ pool = <<>>
    /\ file_map = <<>>
    /\ renaming_map = <<>>
    /\ selected_file_path = NoPath
    /\ queue = <<>>
    /\ pc = "start"
    /\ exit_code = 0
    /\ lines \in {0, 1}
    /\ show_binary = FALSE
    /\ emitted = <<>>
    /\ last = Step("init", NoPath, 0)
    /\ tty = TtyInit
    /\ removed = {}
    /\ nops = 0
    /\ open_files = 0
    /\ denied = {}

\* a new file, its creation reported with or without the write
FsCreate(path, content, op) ==
    /\ EnvReady
    /\ path \notin DOMAIN fs
    /\ fs' = Put(fs, path, content)
    /\ queue' = <<Event(op, path, NoCookie)>>
    /\ nops' = nops + 1
    /\ UNCHANGED <<pool, denied>>
    /\ EnvUnchanged

\* the mode of the file is changed
FsChmod(path) ==
    /\ EnvReady
    /\ path \in DOMAIN fs
    /\ queue' = <<Event("CHMOD", path, NoCookie)>>
    /\ nops' = nops + 1
    /\ UNCHANGED <<fs, pool, denied>>
    /\ EnvUnchanged

\* the file is removed and a new file is written at its path, reported at once
FsReplace(path, content) ==
    /\ EnvReady
    /\ path \in DOMAIN fs
    /\ fs' = [fs EXCEPT ![path] = content]
    /\ pool' = Unlink(pool, path)
    /\ queue' = <<Event("REMOVE|WRITE", path, NoCookie)>>
    /\ nops' = nops + 1
    /\ UNCHANGED denied
    /\ EnvUnchanged

\* rename_file, source-out first, the two events reported as out and in
FsRename(src, dst, out, in) ==
    /\ EnvReady
    /\ src \in DOMAIN fs
    /\ src # dst
    /\ fs' = Put(Remove(fs, src), dst, fs[src])
    /\ pool' = Relink(IF dst \in DOMAIN fs THEN Unlink(pool, dst) ELSE pool, src, dst)
    /\ LET cookie == nops + 1 IN
       queue' = <<[RenameEvent(src, cookie, "out") EXCEPT !.op = out],
                  [RenameEvent(dst, cookie, "in") EXCEPT !.op = in]>>
    /\ nops' = nops + 1
    /\ UNCHANGED denied
    /\ EnvUnchanged

\* a file is moved in from outside the watched directory, over the file at
\* path if there is one: one event with no cookie
FsMoveIn(path, content, op) ==
    /\ EnvReady
    /\ fs' = Put(fs, path, content)
    /\ pool' = IF path \in DOMAIN fs THEN Unlink(pool, path) ELSE pool
    /\ queue' = <<Event(op, path, NoCookie)>>
    /\ nops' = nops + 1
    /\ UNCHANGED denied
    /\ EnvUnchanged

\* the file operations and the events reported for them
NextFlags ==
    \/ nops < MaxFlagOps /\ \E p \in FlagPaths, c \in {<<>>, <<97>>},
                                 op \in {"CREATE", "CREATE|WRITE"} : FsCreate(p, c, op)
    \/ nops < MaxFlagOps /\ \E p \in FlagPaths : EnvAppend(p, 97)
    \/ nops < MaxFlagOps /\ \E p \in FlagPaths : FsChmod(p)
    \/ nops < MaxFlagOps /\ \E p \in FlagPaths : EnvRemove(p)
    \/ nops < MaxFlagOps /\ \E p \in FlagPaths : FsReplace(p, <<98>>)
    \/ nops < MaxFlagOps /\ \E p \in FlagPaths, q \in FlagPaths,
                                 out \in {"RENAME", "RENAME|WRITE", "REMOVE|RENAME"},
                                 in \in {"RENAME", "RENAME|WRITE", "REMOVE|RENAME"} :
                                FsRename(p, q, out, in)
    \/ nops < MaxFlagOps /\ \E p \in FlagPaths, op \in {"RENAME", "REMOVE|RENAME"} :
                                FsMoveIn(p, <<98>>, op)
    \/ Bootstrap

\* one turn of the event loop on macOS
HandleEventMac ==
    /\ pc = "loop"
    /\ queue # <<>>
    /\ Handled(DispatchMac(World, Head(queue)), Head(queue))
    /\ queue' = Tail(queue)

NextMac == NextFlags \/ HandleEventMac
SpecMac == InitFlags /\ [][NextMac]_vars

NextAtomic == NextFlags \/ HandleEvent
SpecAtomic == InitFlags /\ [][NextAtomic]_vars

---------------------------------------------------------------------------
(* The watch loop on Windows.  A file that is deleted while a handle on it  *)
(* is open stays in the directory, pending delete: opening it fails with   *)
(* PermissionDenied, and the delete completes, and is reported, when the   *)
(* last handle is closed.                                                  *)

\* some handle of the pool is open on the file at path
HeldOpen(path) == \E i \in 1..Len(pool) : pool[i].file = path

\* the file at path is deleted while the pool holds a handle on it
WinDeletePending(path) ==
    /\ EnvReady
    /\ path \in DOMAIN fs
    /\ path \notin denied
    /\ HeldOpen(path)
    /\ denied' = denied \cup {path}
    /\ nops' = nops + 1
    /\ UNCHANGED <<fs, pool, queue>>
    /\ EnvUnchanged

\* the last handle on a file pending delete is closed: the delete completes
WinDeleteDone(path) ==
    /\ EnvReady
    /\ PendingDeleteFile(path)
    /\ ~HeldOpen(path)
    /\ fs' = Remove(fs, path)
    /\ denied' = denied \ {path}
    /\ queue' = <<Event("REMOVE", path, NoCookie)>>
    /\ UNCHANGED <<pool, nops>>
    /\ EnvUnchanged

\* recv_timeout returns Timeout: only the sweep runs
WinTick ==
    /\ pc = "loop"
    /\ queue = <<>>
    /\ Commit(HandlePendingDelete(World, TRUE))
    /\ last' = Step("TICK", NoPath, 0)
    /\ UNCHANGED <<queue, pc, exit_code, removed>>

\* one turn of the event loop on Windows: the dispatch, then the sweep
HandleEventWin ==
    /\ pc = "loop"
    /\ queue # <<>>
    /\ LET Swept(w) == IF w.err THEN w ELSE HandlePendingDelete(w, TRUE)
       IN Handled(Swept(Dispatch(World, Head(queue))), Head(queue))
    /\ queue' = Tail(queue)

NextWindows ==
    \/ nops < MaxOps /\ \E p \in FlagPaths, c \in {<<97>>} : EnvCreate(p, c)
    \/ nops < MaxOps /\ \E p \in FlagPaths \ denied : EnvAppend(p, 97)
    \/ nops < MaxOps /\ \E p \in FlagPaths \ denied, q \in FlagPaths \ denied :
                            EnvRename(p, q, TRUE)
    \/ nops < MaxOps /\ \E p \in FlagPaths : ~HeldOpen(p) /\ EnvRemove(p)
    \/ nops < MaxOps /\ \E p \in FlagPaths : WinDeletePending(p)
    \/ \E p \in FlagPaths : WinDeleteDone(p)
    \/ Bootstrap
    \/ WinTick
    \/ HandleEventWin

SpecWindows == InitFlags /\ [][NextWindows]_vars

\* the event loop handles the event at the head of the queue
HandlesEvent == pc = "loop" /\ queue # <<>> /\ queue' = Tail(queue)

\* this step is a timeout tick of the event loop
Ticks == pc = "loop" /\ queue = <<>> /\ UNCHANGED <<fs, denied, queue>>

\* C32: a receive timeout never ends the event loop and changes no watcher
\* state; a disconnected channel ends follow_dir with a Generic error; and
\* the loop ends in no other way while the channel is connected and the
\* events are well-formed: a step that ends the loop is a disconnection or
\* the receipt of a broken event.
C32_LoopEndsOnlyOnChannelFault ==
    [][/\ (Ticks /\ last'.op = "TIMEOUT")
            => /\ pc' = "loop"
               /\ UNCHANGED <<file_map, renaming_map, selected_file_path, pool,
                              exit_code, open_files>>
               /\ emitted' = <<>>
       /\ (Ticks /\ pc' = "exit")
            => exit_code' = EX_ERR /\ last'.op = "Generic"
       /\ (pc = "loop" /\ pc' = "exit")
            => \/ queue = <<>>
               \/ Head(queue) = BrokenEvent
      ]_vars

\* C31: on Windows, after each event or timeout tick no tracked path is left
\* whose fresh open fails with permission denied: the sweep has removed it
\* from file_map and removed the file's handle from the pool, and has printed
\* the separator and cleared selected_file_path if the path was selected;
\* every other tracked path is untouched by a tick.  On other platforms the
\* sweep changes nothing.
C31_SweepReleasesPending ==
    [][/\ (pc' = "loop" /\ (Ticks \/ HandlesEvent))
            => \A p \in FlagPaths :
                  (PendingDeleteFile(p) /\ p \in DOMAIN file_map)
                  => /\ p \notin DOMAIN file_map'
                     /\ ~\E i \in 1..Len(pool') : pool'[i].file = p
                     /\ selected_file_path' # p
                     /\ selected_file_path = p
                            => \E i \in 1..Len(emitted') : emitted'[i].k = "sep"
       /\ Ticks
            => \A p \in DOMAIN file_map :
                  ~PendingDeleteFile(p)
                  => p \in DOMAIN file_map' /\ file_map'[p] = file_map[p]
       /\ HandlePendingDelete(World, FALSE) = World
      ]_vars

---------------------------------------------------------------------------
(* Events that are handled after the file has changed again: a file is     *)
(* written and removed before the loop receives its WRITE event.           *)

\* put_file then remove_file on a new path, before the WRITE event is received
EnvFlash(path) ==
    /\ EnvReady
    /\ path \notin DOMAIN fs
    /\ queue' = <<Event("WRITE", path, NoCookie), Event("REMOVE", path, NoCookie)>>
    /\ nops' = nops + 1
    /\ UNCHANGED <<fs, pool, denied>>
    /\ EnvUnchanged

NextRace ==
    \/ nops < MaxOps /\ \E p \in FlagPaths, c \in CreateContents : EnvCreate(p, c)
    \/ nops < MaxOps /\ \E p \in FlagPaths, b \in TextBytes : EnvAppend(p, b)
    \/ nops < MaxOps /\ \E p \in FlagPaths : EnvRemove(p)
    \/ nops < MaxOps /\ \E p \in FlagPaths : EnvFlash(p)
    \/ Bootstrap
    \/ HandleEvent

SpecRace == InitFlags /\ [][NextRace]_vars

---------------------------------------------------------------------------
(* Properties of the watch loop *)

\* this step is the event loop handling an event of kind op
Handles(op) ==
    pc = "loop" /\ queue # <<>> /\ Head(queue).op = op /\ queue' = Tail(queue)

\* this step is follow_dir tailing the files present at the start
Boots == pc = "start" /\ pc' = "loop"

\* C2: a WRITE event for a tracked file whose length is not below the stored
\* offset emits exactly the bytes of the file from the stored offset to its
\* end, whatever appends, evictions and reopenings came before.
C2_WriteEmitsFromOffset ==
    [][\A p \in Paths :
          (/\ Handles("WRITE")
           /\ Head(queue).path = p
           /\ p \in DOMAIN file_map
           /\ Len(fs[p]) >= file_map[p].seek)
          => ContentBytes(emitted') = SubSeq(fs[p], file_map[p].seek + 1, Len(fs[p]))
      ]_vars

\* this step is the program writing to stdout: the bootstrap or one event
ProgramStep == Boots \/ (pc = "loop" /\ queue # <<>> /\ queue' = Tail(queue))

\* content_inspector classifies the file now at path as binary
IsBinary(path) == path \in DOMAIN fs /\ ~IsText(path)

\* C4: without --show-binary no banner and no content byte of a file that is
\* classified as binary is ever emitted.
C4_BinaryNeverShown ==
    [][(ProgramStep /\ ~show_binary)
          => \A i \in 1..Len(emitted') :
                emitted'[i].k # "sep" => ~IsBinary(emitted'[i].p)
      ]_vars

\* every content byte among items comes under the banner of its own path, and
\* a banner never starts in the middle of a line, in the stream that continues t
RECURSIVE Attributed(_, _)
Attributed(t, items) ==
    IF items = <<>> THEN TRUE
    ELSE /\ Head(items).k = "byte" => t.banner = Head(items).p
         /\ Head(items).k = "banner" => ~(t.open /\ t.seps = 0)
         /\ Attributed(TtyStep(t, Head(items)), Tail(items))

\* C5: in stdout the most recent banner before a content byte names the file
\* the byte came from; so between content bytes of two different files comes a
\* banner of the second file, and the first file's last content byte is
\* followed by a newline before that banner.
C5_ContentUnderOwnBanner == [][ProgramStep => Attributed(tty, emitted')]_vars

\* every banner among items that is not the first output is preceded by
\* exactly one empty line, in the stream that continues t
RECURSIVE Separated(_, _)
Separated(t, items) ==
    IF items = <<>> THEN TRUE
    ELSE /\ (Head(items).k = "banner" /\ t.any)
                => t.seps = (IF t.open THEN 2 ELSE 1)
         /\ Separated(TtyStep(t, Head(items)), Tail(items))

\* C6: every banner but the first is preceded by exactly one empty line: the
\* bytes between the previous file's last emitted byte and the banner are one
\* newline when that byte was a newline (also when the previous file emitted no
\* content, its banner line being the last output), two otherwise.
C6_OneEmptyLineBeforeBanner == [][ProgramStep => Separated(tty, emitted')]_vars

\* the event at the head of the queue is the second of its rename pair
SecondHalf ==
    /\ Handles("RENAME")
    /\ last.op = "RENAME"
    /\ last.cookie = Head(queue).cookie

\* the tail state st kept its offset and printed_eol and is now under path
Carried(st, path) ==
    /\ path \in DOMAIN file_map'
    /\ file_map'[path].seek = st.seek
    /\ file_map'[path].eol = st.eol
    /\ file_map'[path].path = st.path

\* the second event of a pair whose source-out came first, for a tracked source
SourceFirstTracked ==
    /\ SecondHalf
    /\ Head(queue).half = "in"
    /\ MatchPath(Head(queue).path)
    /\ Head(queue).cookie \in DOMAIN renaming_map
    /\ renaming_map[Head(queue).cookie] # <<>>

\* the second event of a pair whose target-in came first, for a tracked source
TargetFirstTracked ==
    /\ SecondHalf
    /\ Head(queue).half = "out"
    /\ MatchPath(last.path)
    /\ Head(queue).path \in DOMAIN file_map

\* the WRITE event handled next is for the path a rename has just moved a tail
\* state to, and the file is not shorter than the moved offset
WriteAfterMove ==
    /\ Handles("WRITE")
    /\ last.op = "RENAME" /\ last.half = "in" /\ last.hit
    /\ Head(queue).path = last.path
    /\ last.path \in DOMAIN file_map
    /\ Len(fs[last.path]) >= file_map[last.path].seek

\* C7: a rename of a tracked file to a matching target, source-out first, moves
\* the tail state to the target path with offset and printed_eol unchanged and
\* leaves none under the source path; the WRITE on the target that follows
\* emits, under the target's banner, only the bytes appended after the offset.
C7_RenameKeepsOffset ==
    [][/\ SourceFirstTracked
            => /\ Carried(renaming_map[Head(queue).cookie][1], Head(queue).path)
               /\ last.path \notin DOMAIN file_map'
       /\ WriteAfterMove
            => /\ pc' = "loop"
               /\ tty'.banner = last.path
               /\ ContentBytes(emitted')
                     = SubSeq(fs[last.path], file_map[last.path].seek + 1,
                              Len(fs[last.path]))
      ]_vars

\* C8 as stated: whichever half of the pair arrives first, after both events
\* file_map holds the renamed file's tail state under the target path and no
\* entry under the source path.
C8_EitherOrderMoves ==
    [][/\ SourceFirstTracked
            => /\ Carried(renaming_map[Head(queue).cookie][1], Head(queue).path)
               /\ last.path \notin DOMAIN file_map'
       /\ TargetFirstTracked
            => /\ Carried(file_map[Head(queue).path], last.path)
               /\ Head(queue).path \notin DOMAIN file_map'
      ]_vars

\* C8 amended: the first event of a cookie is taken for the source-out half.
\* With source-out first the tail state moves to the target path and none is
\* left under the source path; with target-in first the state is not moved:
\* after both events file_map has an entry under the source path and none
\* under the target path.
C8_SourceFirstMoves ==
    [][/\ SourceFirstTracked
            => /\ Carried(renaming_map[Head(queue).cookie][1], Head(queue).path)
               /\ last.path \notin DOMAIN file_map'
       /\ TargetFirstTracked
            => /\ Head(queue).path \in DOMAIN file_map'
               /\ last.path \notin DOMAIN file_map'
      ]_vars

\* C8 happens: both halves of a rename of a tracked file have been handled,
\* target-in first, and the source path is still the tracked one
C8_Witness ==
    /\ last.op = "RENAME" /\ last.half = "out"
    /\ queue = <<>>
    /\ last.cookie \notin DOMAIN renaming_map
    /\ last.path \in DOMAIN file_map
    /\ last.path \notin DOMAIN fs

\* the cookies of which exactly one event is still in flight
HalfHandled ==
    {c \in 1..(nops + 1) :
        Cardinality({i \in 1..Len(queue) :
                        queue[i].op = "RENAME" /\ queue[i].cookie = c}) = 1}

\* C9: the first RENAME event of a cookie creates one renaming_map entry and
\* the second removes it without creating another: renaming_map holds exactly
\* the cookies whose second event has not been handled yet.
C9_CookieHandledOnce == pc = "loop" => DOMAIN renaming_map = HalfHandled

\* C9 happens: the second event of a pair has just removed the pair's entry
C9_Witness ==
    /\ last.op = "RENAME" /\ last.cookie = nops /\ nops >= 1
    /\ queue = <<>>
    /\ renaming_map = <<>>
    /\ last.hit

\* C10: a REMOVE event for a tracked path leaves the path in neither file_map
\* nor the pool and, if the path was selected, prints a newline (unless
\* printed_eol) and an empty line and clears the selection; the next WRITE
\* event on the path, once a file exists there again, prints the path's
\* banner and streams that file from offset 0.
C10_RemoveThenFresh ==
    [][\A p \in Paths :
         /\ (Handles("REMOVE") /\ Head(queue).path = p /\ p \in DOMAIN file_map)
              => /\ p \notin DOMAIN file_map'
                 /\ ~HasKey(pool', p)
                 /\ selected_file_path = p
                      => /\ selected_file_path' = NoPath
                         /\ emitted' = (IF file_map[p].eol THEN <<>> ELSE <<SepItem>>)
                                            \o <<SepItem>>
         /\ (Handles("WRITE") /\ Head(queue).path = p /\ p \in removed
                /\ p \in DOMAIN fs)
              => /\ pc' = "loop"
                 /\ \E i \in 1..Len(emitted') : emitted'[i] = BannerItem(p)
                 /\ ContentBytes(emitted') = fs[p]
      ]_vars

\* C16: with lines = 0 the bootstrap prints nothing and enters every file that
\* passes the filter into file_map with its offset at the file's length; the
\* first append to such a file then prints its banner and the appended bytes
\* only, none of the bytes the file had before the start.
C16_QuietBootSkipsOldBytes ==
    [][/\ (Boots /\ lines = 0)
            => /\ emitted' = <<>>
               /\ DOMAIN file_map' = {FilteredFiles[i] : i \in 1..Len(FilteredFiles)}
               /\ \A p \in DOMAIN file_map' : file_map'[p].seek = Len(fs[p])
       /\ \A p \in Paths :
            (/\ Handles("WRITE") /\ lines = 0 /\ last.op = "BOOT"
             /\ Head(queue).path = p
             /\ p \in DOMAIN file_map
             /\ Len(fs[p]) > file_map[p].seek)
            => emitted' = <<BannerItem(p)>>
                            \o ContentItems(p, SubSeq(fs[p], file_map[p].seek + 1,
                                                      Len(fs[p])))
      ]_vars

\* C17: a WRITE event for a path the regex does not match changes nothing
\* (file_map, renaming_map, selected_file_path, the pool, the output), so no
\* banner and no content of a file at a non-matching path is ever printed.
C17_NonMatchingWriteIgnored ==
    [][/\ (Handles("WRITE") /\ ~MatchPath(Head(queue).path))
            => /\ UNCHANGED <<file_map, renaming_map, selected_file_path, pool>>
               /\ emitted' = <<>>
       /\ ProgramStep
            => \A i \in 1..Len(emitted') :
                  (emitted'[i].k # "sep" /\ emitted'[i].p # NoPath)
                      => MatchPath(emitted'[i].p)
      ]_vars

\* C18: the first thing the program prints is a banner, with no newline
\* before it; and whenever a step that starts with no file selected prints a
\* banner, the banner is the first thing the step prints.
C18_NoNewlineBeforeFirstBanner ==
    [][ProgramStep
          => /\ (~tty.any /\ emitted' # <<>>) => emitted'[1].k = "banner"
             /\ (/\ selected_file_path = NoPath
                 /\ \E i \in 1..Len(emitted') : emitted'[i].k = "banner")
                  => emitted'[1].k = "banner"
      ]_vars

\* C18 happens: after the selected file was removed, a WRITE for another file
\* has printed its banner first, later than the program's first output
C18_Witness ==
    /\ last.op = "WRITE"
    /\ lines >= 1
    /\ removed # {}
    /\ emitted # <<>>
    /\ emitted[1].k = "banner"
    /\ tty.banner = last.path

\* C19: a WRITE event for a file that exists but cannot be opened or read is
\* ignored: handle_write returns Ok, the event loop keeps running and the
\* program does not exit.
C19_FailedWriteIgnored ==
    [][\A p \in Paths :
          (/\ Handles("WRITE")
           /\ Head(queue).path = p
           /\ p \in DOMAIN fs
           /\ p \in denied)
          => /\ pc' = "loop"
             /\ exit_code' = exit_code
      ]_vars

\* C20: when a file that passes the regex cannot be opened at the bootstrap,
\* follow_dir ends with an I/O error, the process exits with EX_IOERR, and
\* the file is not entered into file_map.
C20_BootOpenFailureExits ==
    [][(Boots /\ \E p \in DOMAIN fs : MatchPath(p) /\ p \in denied)
          => /\ pc' = "exit"
             /\ exit_code' = EX_IOERR
             /\ \A p \in denied : p \notin DOMAIN file_map'
      ]_vars

\* C22: a WRITE event for a matching path that is not in file_map and exists
\* creates a tail state that streams from offset 0: the whole content of the
\* file now at the path is printed under the path's banner and the state is
\* inserted with current_seek at the file's length, whatever happened before.
C22_UntrackedWriteStreamsFromZero ==
    [][\A p \in Paths :
          (/\ Handles("WRITE")
           /\ Head(queue).path = p
           /\ MatchPath(p)
           /\ p \notin DOMAIN file_map
           /\ p \in DOMAIN fs)
          => /\ pc' = "loop"
             /\ tty'.banner = p
             /\ ContentBytes(emitted') = fs[p]
             /\ p \in DOMAIN file_map'
             /\ file_map'[p].seek = Len(fs[p])
      ]_vars

\* C23: after a REMOVE event for a tracked path the pool holds no entry for the
\* handle of the removed file, also when the tail state's reader was created
\* under another path and came to this one by a rename.
C23_RemoveDropsHandle ==
    [][\A p \in Paths :
          (/\ Handles("REMOVE")
           /\ Head(queue).path = p
           /\ p \in DOMAIN file_map)
          => ~\E i \in 1..Len(pool') :
                 /\ pool'[i].key = file_map[p].path
                 /\ pool'[i].file = NoPath
      ]_vars

\* C25: a WRITE event for a tracked file that is now shorter than the stored
\* offset emits the whole current content from byte 0 and leaves current_seek
\* at the current length; when the file is not shorter, no byte below the
\* stored offset is emitted again: at most the bytes beyond it are emitted.
C25_ShrinkRestartsElseNoRepeat ==
    [][\A p \in Paths :
          (/\ Handles("WRITE")
           /\ Head(queue).path = p
           /\ MatchPath(p)
           /\ lines > 0
           /\ p \in DOMAIN file_map)
          => IF Len(fs[p]) < file_map[p].seek
             THEN /\ ContentBytes(emitted') = fs[p]
                  /\ file_map'[p].seek = Len(fs[p])
             ELSE Len(ContentBytes(emitted')) <= Len(fs[p]) - file_map[p].seek
      ]_vars

\* the second event of a pair is its target-in half, it finds the tail state
\* the source-out half stored, and the target path does not match the filter
TargetRejected ==
    /\ SecondHalf
    /\ Head(queue).half = "in"
    /\ ~MatchPath(Head(queue).path)
    /\ Head(queue).cookie \in DOMAIN renaming_map
    /\ renaming_map[Head(queue).cookie] # <<>>

\* C27: when the target-in half arrives second with a stored tail state and
\* the target path does not match the filter, the state is dropped: file_map
\* gets no entry for the target (nor any other), the cookie leaves
\* renaming_map, nothing is printed, and a WRITE event for the target path
\* that follows prints nothing and tracks nothing.
C27_NonMatchingTargetReleases ==
    [][/\ TargetRejected
            => /\ Head(queue).path \notin DOMAIN file_map'
               /\ DOMAIN file_map' = DOMAIN file_map
               /\ Head(queue).cookie \notin DOMAIN renaming_map'
               /\ emitted' = <<>>
       /\ (/\ Handles("WRITE")
            /\ last.op = "RENAME" /\ last.half = "in" /\ ~MatchPath(last.path)
            /\ Head(queue).path = last.path)
            => /\ emitted' = <<>>
               /\ last.path \notin DOMAIN file_map'
      ]_vars

\* C27 happens: a WRITE event has been handled for a non-matching path whose
\* file is still open in the pool, that is a tracked file that was renamed to
\* the non-matching path; no state is left anywhere
C27_Witness ==
    /\ last.op = "WRITE"
    /\ ~MatchPath(last.path)
    /\ \E i \in 1..Len(pool) : pool[i].file = last.path
    /\ file_map = <<>>
    /\ renaming_map = <<>>
    /\ emitted = <<>>

\* C28: a rename pair whose first event names a path that is not in file_map
\* changes neither file_map nor selected_file_path and prints nothing: the
\* first event stores a None tombstone under the cookie and the second event
\* only removes it.
C28_UntrackedRenameIsSilent ==
    [][/\ (/\ Handles("RENAME")
            /\ Head(queue).cookie \notin DOMAIN renaming_map
            /\ Head(queue).path \notin DOMAIN file_map)
            => /\ renaming_map' = Put(renaming_map, Head(queue).cookie, <<>>)
               /\ UNCHANGED <<file_map, selected_file_path, pool>>
               /\ emitted' = <<>>
       /\ (/\ Handles("RENAME")
            /\ Head(queue).cookie \in DOMAIN renaming_map
            /\ renaming_map[Head(queue).cookie] = <<>>)
            => /\ renaming_map' = Remove(renaming_map, Head(queue).cookie)
               /\ UNCHANGED <<file_map, selected_file_path, pool>>
               /\ emitted' = <<>>
      ]_vars

\* C28 happens: both events of a pair have been handled, target-in first for
\* an untracked target, and the source-out event has left the tracked source
\* path in file_map
C28_Witness ==
    /\ last.op = "RENAME" /\ last.half = "out" /\ ~last.hit
    /\ queue = <<>>
    /\ renaming_map = <<>>
    /\ last.path \in DOMAIN file_map
    /\ selected_file_path = last.path

\* the event at the head of the queue has RENAME among its flags and a cookie
RenameWithCookie ==
    Contains(Head(queue).op, "RENAME") /\ Head(queue).cookie # NoCookie

\* C29: on macOS an event with RENAME among its flags and a cookie is handled
\* as a rename only: a co-reported WRITE prints no banner and no content and
\* opens no file, a co-reported REMOVE drops no tail state (the state of a
\* tracked path goes to renaming_map) and pops no handle.  For any other
\* event REMOVE is applied only when RENAME is not set, and when REMOVE and
\* WRITE both apply the remove comes first: the tail state of the path is
\* dropped and the file now at the path is tracked and selected afresh.
C29_MacDispatch ==
    [][HandlesEvent
          => /\ RenameWithCookie
                  => /\ \A i \in 1..Len(emitted') : emitted'[i].k = "sep"
                     /\ pool' = pool
                     /\ (/\ Head(queue).path \in DOMAIN file_map
                         /\ Head(queue).cookie \notin DOMAIN renaming_map)
                          => /\ Head(queue).cookie \in DOMAIN renaming_map'
                             /\ renaming_map'[Head(queue).cookie]
                                   = <<file_map[Head(queue).path]>>
             /\ (/\ ~RenameWithCookie
                 /\ Contains(Head(queue).op, "REMOVE")
                 /\ Contains(Head(queue).op, "RENAME")
                 /\ ~Contains(Head(queue).op, "WRITE"))
                  => /\ UNCHANGED <<file_map, renaming_map, selected_file_path, pool>>
                     /\ emitted' = <<>>
             /\ (/\ ~RenameWithCookie
                 /\ Contains(Head(queue).op, "REMOVE")
                 /\ ~Contains(Head(queue).op, "RENAME")
                 /\ ~Contains(Head(queue).op, "WRITE"))
                  => Head(queue).path \notin DOMAIN file_map'
             /\ (/\ ~RenameWithCookie
                 /\ Contains(Head(queue).op, "REMOVE")
                 /\ ~Contains(Head(queue).op, "RENAME")
                 /\ Contains(Head(queue).op, "WRITE")
                 /\ Head(queue).path \in DOMAIN file_map
                 /\ Head(queue).path \in DOMAIN fs
                 /\ pc' = "loop")
                  => /\ Head(queue).path \in DOMAIN file_map'
                     /\ selected_file_path' = Head(queue).path
                     /\ tty'.banner = Head(queue).path
      ]_vars

\* C29 happens: an event with REMOVE and WRITE has been handled for a tracked
\* path whose file was replaced, and the path is tracked again and selected
C29_Witness ==
    /\ last.op = "REMOVE|WRITE"
    /\ last.hit
    /\ last.path \in DOMAIN file_map
    /\ selected_file_path = last.path
    /\ pc = "loop"

\* C30: on platforms other than macOS an event acts only when its op is
\* exactly WRITE, exactly REMOVE or exactly RENAME: an event with any other
\* flag set changes none of file_map, renaming_map, selected_file_path and
\* the pool, and prints nothing.
C30_OnlyExactOpsAct ==
    [][(HandlesEvent /\ Head(queue).op \notin {"WRITE", "REMOVE", "RENAME"})
          => /\ UNCHANGED <<file_map, renaming_map, selected_file_path, pool>>
             /\ emitted' = <<>>
             /\ pc' = "loop"
      ]_vars

\* C30 happens: the event for a new matching file with content, reported as
\* CREATE and WRITE at once, has been handled and the file is not tracked
C30_Witness ==
    /\ last.op = "CREATE|WRITE"
    /\ last.path \in DOMAIN fs
    /\ fs[last.path] # <<>>
    /\ MatchPath(last.path)
    /\ last.path \notin DOMAIN file_map
    /\ queue = <<>>

\* C35: whenever selected_file_path is set it is a key of file_map; in
\* particular a WRITE event for a matching path that is not on disk prints no
\* banner and leaves selected_file_path as it was.
C35_SelectedIsTracked ==
    [][/\ (pc' = "loop" /\ selected_file_path' # NoPath)
            => selected_file_path' \in DOMAIN file_map'
       /\ \A p \in FlagPaths :
            (/\ Handles("WRITE")
             /\ Head(queue).path = p
             /\ MatchPath(p)
             /\ p \notin DOMAIN file_map
             /\ p \notin DOMAIN fs)
            => /\ \A i \in 1..Len(emitted') : emitted'[i].k # "banner"
               /\ UNCHANGED selected_file_path
      ]_vars

\* C39: one broken event ends the event loop with a Generic error and exit
\* code 1, and nothing is processed after it: the events behind it stay in
\* the channel and the watcher's state and output no longer change.
C39_BrokenEventEndsLoop ==
    [][/\ (pc = "loop" /\ queue # <<>> /\ Head(queue) = BrokenEvent)
            => /\ pc' = "exit"
               /\ exit_code' = EX_ERR
               /\ last'.op = "Generic"
               /\ UNCHANGED <<file_map, renaming_map, selected_file_path, pool, tty>>
       /\ pc = "exit"
            => UNCHANGED <<pc, exit_code, queue, file_map, renaming_map,
                           selected_file_path, pool, emitted, tty>>
      ]_vars

\* C39 happens: the program has exited with code 1 on a broken event while
\* the WRITE event of a new file was still waiting in the channel
C39_Witness ==
    /\ pc = "exit"
    /\ exit_code = EX_ERR
    /\ queue # <<>>
    /\ Head(queue) = BrokenEvent
    /\ Len(queue) = 2
    /\ queue[2].path \in DOMAIN fs

---------------------------------------------------------------------------
(* Properties of the pool *)

\* C11: whatever readers were acquired, evicted and dropped, and however many
\* paths file_map holds, the LRU pool never holds more than MAX_FILE_HANDLE
\* entries.
C11_PoolWithinCapacity == Len(pool) <= MAX_FILE_HANDLE

\* C11 happens: the pool is full while file_map tracks more paths than it holds
C11_Witness ==
    /\ pc = "loop"
    /\ Len(pool) = MAX_FILE_HANDLE
    /\ Cardinality(DOMAIN file_map) > MAX_FILE_HANDLE

\* the tail states the watcher holds, in file_map and in renaming_map
HeldStates ==
    {file_map[p] : p \in DOMAIN file_map}
        \cup {renaming_map[c][1] : c \in {d \in DOMAIN renaming_map : renaming_map[d] # <<>>}}

\* C12: between events every File alive is the File of a pool entry and no
\* tail state reaches a File the pool has dropped, so at most MAX_FILE_HANDLE
\* files are open however many paths are tailed: an evicted File is gone once
\* the handler that evicted it has returned.
C12_OpenFilesOwnedByPool ==
    (pc \in {"loop", "exit"})
        => /\ open_files = Len(pool)
           /\ open_files <= MAX_FILE_HANDLE
           /\ \A st \in HeldStates : st.cache => HasKey(pool, st.path)

\* C12 happens: more files were opened than the pool holds, the File of a
\* tracked path has been evicted and dropped
C12_Witness ==
    /\ pc = "loop"
    /\ open_files = MAX_FILE_HANDLE
    /\ \E p \in DOMAIN file_map : ~HasKey(pool, file_map[p].path)

====
